---- MODULE Spec2Model ----
(***************************************************************************)
(* Model of the real-time voice session bridge of the restaurant backend:  *)
(* src/src/sessionManager.ts (Session record, lifecycle, barge-in,         *)
(* function dispatch), src/src/aiProviders.ts (OpenAIProvider) and the WebSocket  *)
(* acceptor of src/src/server.ts.  One action per event handler; a handler *)
(* runs to completion (single-threaded event loop).                        *)
(***************************************************************************)
EXTENDS Integers, Sequences, FiniteSets, TLC

\* ------------------------------------------------------------------ bounds
\* telephony sockets accepted on /call over the run
MaxCalls == 2
\* observer sockets accepted on /logs over the run
MaxLogs == 2
\* observer sockets of the lifecycle specification
LifecycleLogs == 1
\* Provider instances created over the run
MaxProviders == 2
\* telephony sockets and Provider instances of the barge-in specification
BargeCalls == 1
BargeProviders == 1
\* telephony sockets and Provider instances of the dispatch specification
DispatchCalls == 1
DispatchProviders == 1
\* recordings whose status webhook arrives over the run
MaxRecordings == 2
\* telephony sockets and Provider instances of the handover specification
HandoverCalls == 2
HandoverProviders == 2
\* telephony sockets and Provider instances of the wire specification
WireCalls == 1
WireProviders == 2

\* ------------------------------------------------------------ input domains
CallIds == 1..MaxCalls
RecordingIds == 1..MaxRecordings
LogIds == 1..MaxLogs
ProviderIds == 1..MaxProviders

\* media.timestamp values of telephony `media` frames
Timestamps == {0, 500, 900, 1000, 1450}
\* the media.timestamp and start.streamSid values specification Spec draws
LifecycleTimestamps == {0}
LifecycleStreamSids == {"S1"}
\* start.streamSid values of telephony `start` frames
StreamSids == {"S1", "S2"}
\* item_id values of Provider audio deltas; "" is a delta without item id
ItemIds == {"I1"}
\* the item_id values specification SpecRelay draws: two utterances
RelayItemIds == {"I1", "I2"}
\* call_id values of Provider function calls
FnCallIds == {"c1", "c2"}
\* name values of Provider function calls
FnNames == {"get_cart", "add_to_cart", "does_not_exist"}
\* arguments values of Provider function calls: unparseable text, JSON null,
\* and an add_to_cart request for one menu item
RawArguments == {"{not json", "null", "{\"items\":[{\"itemId\":\"pizza_margherita\"}]}"}
\* the add_to_cart request for one menu item
ItemsArgument == "{\"items\":[{\"itemId\":\"pizza_margherita\"}]}"
\* a place_order request whose customerInfo carries a phone number
PhoneArgument == "{\"customerInfo\":{\"phone\":\"+15550100\"}}"
\* name and arguments values of the function calls of the in-flight specification
AsyncFnNames == {"add_to_cart", "place_order"}
AsyncRawArguments == {ItemsArgument, PhoneArgument}

\* place_order arguments without a phone number
CashArgument == "{\"customerInfo\":{\"name\":\"Ann\"},\"paymentMethod\":\"cash\"}"

\* the raw arguments place_order is requested with in SpecOrder
OrderRawArguments == {"null", CashArgument, PhoneArgument}
\* the keys of the cart store: the default session id and the stream ids
SessionKeys == {"default_session"} \cup StreamSids
\* largest number of items the model lets a cart hold
MaxCartItems == 1

\* items a cart holds in SpecCart
CartItems == 2
\* largest number of orders the model lets the order store hold
MaxOrders == 2
\* telephony sockets and Provider instances of the in-flight specification
AsyncCalls == 1
AsyncProviders == 1
\* telephony sockets, observer sockets and Provider instances of the
\* teardown specification
LegsCalls == 1
LegsLogs == 1
LegsProviders == 1
\* telephony sockets and Provider instances of the relay specification
RelayCalls == 1
RelayProviders == 1
\* telephony sockets, observer sockets and Provider instances of the
\* protocol specification
ProtocolCalls == 1
ProtocolLogs == 2
ProtocolProviders == 1
\* session values of observer session.update messages
SessionConfigs == {"config1", "config2"}
\* media.payload values of telephony frames and delta values of Provider audio
Payloads == {"a", "b"}
\* media.timestamp values of the relay specification
RelayTimestamps == {0, 500}
\* telephony messages that are not a well-formed start, media or close
\* envelope: unparseable text, JSON null, an object without event, a start
\* without start object, a media without media object
MalformedTwilioMessages ==
    {"{not json", "null", "{}", "{\"event\":\"start\"}", "{\"event\":\"media\"}"}
\* Provider messages that are not a well-formed event: unparseable text, JSON
\* null, a response.output_item.done without item
MalformedProviderMessages ==
    {"{not json", "null", "{\"type\":\"response.output_item.done\"}"}
\* observer messages that are not a session.update: unparseable text, JSON
\* null, an object without type, an object of another type
MalformedFrontendMessages == {"{not json", "null", "{}", "{\"type\":\"response.create\"}"}

\* ------------------------------------------------------- modelConfig.ts
\* AVAILABLE_MODELS, each with the fields the bridge and the lookups read
AVAILABLE_MODELS ==
    <<[provider |-> "openai", model |-> "gpt-realtime", name |-> "GPT Realtime"],
      [provider |-> "openai", model |-> "gpt-realtime-mini", name |-> "GPT Realtime Mini"],
      [provider |-> "openai", model |-> "gpt-4o-realtime-preview",
       name |-> "GPT-4o Realtime Preview"],
      [provider |-> "openai", model |-> "gpt-4o-mini-realtime-preview",
       name |-> "GPT-4o Mini Realtime Preview"]>>

\* DEFAULT_MODEL = AVAILABLE_MODELS[0]
DEFAULT_MODEL == AVAILABLE_MODELS[1]

\* A model id is the sequence of its pieces: each ":" and each run of
\* characters between colons is one piece.
\* getModelId(config): `${config.provider}:${config.model}`
getModelId(config) == <<config.provider, ":", config.model>>

\* the null of getModelConfig and getModelById
NoModel == [provider |-> "null", model |-> "null", name |-> "null"]

\* an element that destructuring finds missing in the array split returns
NoSegment == <<"undefined">>

\* id.split(':'): the segments between the colons, in order; an id without
\* colon is its only segment
RECURSIVE split(_)
split(id) ==
    IF \A i \in 1..Len(id) : id[i] # ":" THEN <<id>>
    ELSE LET i == CHOOSE k \in 1..Len(id) : id[k] = ":" /\ \A j \in 1..(k - 1) : id[j] # ":"
         IN <<SubSeq(id, 1, i - 1)>> \o split(SubSeq(id, i + 1, Len(id)))

\* getModelConfig(provider, model): the first model of AVAILABLE_MODELS with
\* that provider and model, or null
getModelConfig(provider, model) ==
    LET found == {i \in 1..Len(AVAILABLE_MODELS) :
                     /\ <<AVAILABLE_MODELS[i].provider>> = provider
                     /\ <<AVAILABLE_MODELS[i].model>> = model}
    IN IF found = {} THEN NoModel
       ELSE AVAILABLE_MODELS[CHOOSE i \in found : \A j \in found : i <= j]

\* getModelById(id): `const [provider, model] = id.split(':')` takes the first
\* two segments and ignores the others
getModelById(id) ==
    LET parts == split(id)
    IN getModelConfig(parts[1], IF Len(parts) >= 2 THEN parts[2] ELSE NoSegment)

\* the sequences over set S of length at most n
RECURSIVE SeqsUpTo(_, _)
SeqsUpTo(S, n) ==
    IF n = 0 THEN {<<>>}
    ELSE LET shorter == SeqsUpTo(S, n - 1)
         IN shorter \cup {Append(q, x) : q \in shorter, x \in S}

\* the pieces the model ids of the model specification are made of
IdPieces == {"openai", ":", "gpt-realtime"}
\* largest number of pieces of a drawn model id
MaxIdLen == 4
\* modelId values of setCurrentModel: the id of every available model and
\* every sequence of at most MaxIdLen pieces
ModelIds ==
    {getModelId(AVAILABLE_MODELS[i]) : i \in 1..Len(AVAILABLE_MODELS)}
      \cup SeqsUpTo(IdPieces, MaxIdLen)

\* ------------------------------------------------- `undefined` of each type
\* an optional socket / provider reference that is undefined
NoRef == 0
\* an optional number that is undefined
NoNum == 0 - 1
\* an optional string that is undefined
NoStr == "undefined"

VARIABLES
    session,            \* sessionManager.ts: let session: Session
    conn,               \* readyState of every telephony socket
    logs,               \* readyState of every observer socket
    prov,               \* every Provider instance: socket, ws, connected
    currentCall,        \* server.ts: let currentCall
    currentLogs,        \* server.ts: let currentLogs
    OPENAI_API_KEY,     \* server.ts: process.env.OPENAI_API_KEY || ""
    currentModelConfig, \* aiConfig: let currentModelConfig
    currentSessionId,   \* functionHandlers.ts: let currentSessionId
    carts,              \* dataStorage.ts: const carts
    orders,             \* dataStorage.ts: const orders, in order of creation
    inflight,           \* place_order calls awaiting sendSms, in order of issue
    out,                \* what the last handler sent and called, in order
    wire,               \* what each Provider socket carried so far, outbound
    recordings,         \* every recording: its download and its two copies
    googleDriveStorage, \* server.ts: let googleDriveStorage, whether it is set
    probe,              \* whether this behaviour records `out`
    scenario            \* progress of the last events along the scenario

vars == <<session, conn, logs, prov, currentCall, currentLogs, OPENAI_API_KEY,
          currentModelConfig, currentSessionId, carts, orders, inflight, out, wire,
          recordings, googleDriveStorage, probe, scenario>>

\* session = {}
EmptySession ==
    [twilioConn |-> NoRef, frontendConn |-> NoRef, aiProvider |-> NoRef,
     streamSid |-> NoStr, saved_config |-> NoStr, lastAssistantItem |-> NoStr,
     responseStartTimestamp |-> NoNum, latestMediaTimestamp |-> NoNum,
     apiKeys |-> NoStr]

\* a Provider slot before `new OpenAIProvider(config)`
NoProvider == [sock |-> "NEW", ws |-> FALSE, connected |-> FALSE, truncate |-> FALSE]

\* one entry of `out`. ch is "event" (the event being handled, always the
\* first entry), "call" (a method invoked on Provider id), "provider" (a
\* message written to Provider id's socket), "twilio" (a frame written to
\* telephony socket id), "handler" (the registered handler op invoked with
\* arg), "return" (handleFunctionCall resolved to data), "reject"
\* (handleFunctionCall rejected with data), "throw" (the error op left the
\* listener uncaught) or "emit" (Provider id emitted the event op to its
\* listeners)
EffD(ch, op, id, str, num, data, arg) ==
    [ch |-> ch, op |-> op, id |-> id, str |-> str, num |-> num, data |-> data,
     arg |-> arg]

Eff(ch, op, id, str, num) == EffD(ch, op, id, str, num, "undefined", "undefined")

\* the part of the state the handlers of sessionManager.ts read and write
World ==
    [session |-> session, conn |-> conn, logs |-> logs, prov |-> prov,
     currentModelConfig |-> currentModelConfig,
     currentSessionId |-> currentSessionId, carts |-> carts, orders |-> orders,
     inflight |-> inflight, out |-> <<>>]

\* the world as a handler finds it, `out` holding the event it handles
Handling(op, id, str, num) == [World EXCEPT !.out = <<Eff("event", op, id, str, num)>>]

\* carts.get(sessionId) of a session without cart
NoCart == [exists |-> FALSE, items |-> <<>>, total |-> 0]

\* ------------------------------------------------------------- JS helpers
\* an error thrown by a statement no try block encloses: the listener ends
\* there and the error leaves it
throw(w, error) == [w EXCEPT !.out = Append(@, Eff("throw", error, NoRef, NoStr, NoNum))]

\* a sequence without its i-th element
Without(seq, i) == SubSeq(seq, 1, i - 1) \o SubSeq(seq, i + 1, Len(seq))

\* `x || 0` on an optional number
OrZero(n) == IF n = NoNum THEN 0 ELSE n

\* `!!s` on an optional string
Truthy(s) == s # NoStr /\ s # ""

\* ws.close() of the ws library, on the readyState of a server-side socket
wsClose(state) == IF state = "OPEN" THEN "CLOSING" ELSE state

\* ws.close() on a Provider's client socket: a socket still connecting aborts
\* its handshake (its error and close events are queued for the next tick),
\* an open one starts closing
clientClose(state) ==
    CASE state = "CONNECTING" -> "ABORTING"
      [] state = "OPEN" -> "CLOSING"
      [] OTHER -> state

\* isOpen(ws), on the array of sockets ws belongs to
isOpen(socks, c) == c # NoRef /\ socks[c] = "OPEN"

\* cleanupConnection(ws)
cleanupConnection(socks, c) ==
    IF isOpen(socks, c) THEN [socks EXCEPT ![c] = wsClose(@)] ELSE socks

\* jsonSend(session.twilioConn, obj), obj = {event: op, streamSid, media:
\* {payload: str}}
jsonSend(w, c, op, streamSid, str) ==
    IF ~isOpen(w.conn, c) THEN w
    ELSE [w EXCEPT !.out = Append(@, EffD("twilio", op, c, str, NoNum, streamSid, NoStr))]

\* --------------------------------------------------------- OpenAIProvider
\* OpenAIProvider.isConnected()
isConnected(w, p) == w.prov[p].connected

\* OpenAIProvider.sendMessage(message): written only through an open socket
sendMessage(w, p, op, str, num, data) ==
    IF ~w.prov[p].ws \/ ~w.prov[p].connected \/ w.prov[p].sock # "OPEN" THEN w
    ELSE [w EXCEPT !.out = Append(@, EffD("provider", op, p, str, num, data, NoStr))]

\* OpenAIProvider.sendAudio(audioData)
sendAudio(w, p, payload) ==
    LET w1 == [w EXCEPT !.out = Append(@, Eff("call", "sendAudio", p, payload, NoNum))]
    IN IF ~w.prov[p].connected \/ ~w.prov[p].ws THEN w1
       ELSE sendMessage(w1, p, "input_audio_buffer.append", payload, NoNum, NoStr)

\* OpenAIProvider.interrupt(): an empty method
interrupt(w, p) ==
    [w EXCEPT !.out = Append(@, Eff("call", "interrupt", p, NoStr, NoNum))]

\* OpenAIProvider.truncate(itemId, audioEndMs)
truncate(w, p, itemId, audioEndMs) ==
    LET w1 == [w EXCEPT !.out = Append(@, Eff("call", "truncate", p, itemId, audioEndMs))]
    IN IF ~w.prov[p].connected \/ ~w.prov[p].ws THEN w1
       ELSE sendMessage(w1, p, "conversation.item.truncate", itemId, audioEndMs, NoStr)

\* OpenAIProvider.close() without `this.ws = undefined`
close_socketKept(w, p) ==
    LET w1 == [w EXCEPT !.out = Append(@, Eff("call", "close", p, NoStr, NoNum))]
    IN IF w.prov[p].ws
       THEN [w1 EXCEPT !.prov[p].sock = clientClose(@), !.prov[p].connected = FALSE]
       ELSE [w1 EXCEPT !.prov[p].connected = FALSE]

\* OpenAIProvider.close()
close(w, p) ==
    LET w1 == [w EXCEPT !.out = Append(@, Eff("call", "close", p, NoStr, NoNum))]
    IN IF w.prov[p].ws
       THEN [w1 EXCEPT !.prov[p].sock = clientClose(@), !.prov[p].ws = FALSE,
                       !.prov[p].connected = FALSE]
       ELSE [w1 EXCEPT !.prov[p].connected = FALSE]

\* OpenAIProvider.connect(): a new client socket, handshake in progress
connect(w, p) ==
    [w EXCEPT !.prov[p].sock = "CONNECTING", !.prov[p].ws = TRUE]

\* ---------------------------------------------------------- sessionManager
\* cleanupAIProvider() with `||` for `&&` in the reset condition
cleanupAIProvider_eitherAbsent(w) ==
    LET p == w.session.aiProvider
        w1 == IF p # NoRef
              THEN [close(w, p) EXCEPT !.session.aiProvider = NoRef]
              ELSE w
    IN IF w1.session.twilioConn = NoRef \/ w1.session.frontendConn = NoRef
       THEN [w1 EXCEPT !.session = EmptySession]
       ELSE w1

\* cleanupAIProvider()
cleanupAIProvider(w) ==
    LET p == w.session.aiProvider
        w1 == IF p # NoRef
              THEN [close(w, p) EXCEPT !.session.aiProvider = NoRef]
              ELSE w
    IN IF w1.session.twilioConn = NoRef /\ w1.session.frontendConn = NoRef
       THEN [w1 EXCEPT !.session = EmptySession]
       ELSE w1

\* closeAllConnections()
closeAllConnections(w) ==
    LET t == w.session.twilioConn
        w1 == IF t # NoRef
              THEN [w EXCEPT !.conn[t] = wsClose(@), !.session.twilioConn = NoRef]
              ELSE w
        w2 == cleanupAIProvider(w1)
        f == w2.session.frontendConn
        w3 == IF f # NoRef
              THEN [w2 EXCEPT !.logs[f] = wsClose(@), !.session.frontendConn = NoRef]
              ELSE w2
    IN [w3 EXCEPT !.session.streamSid = NoStr,
                  !.session.lastAssistantItem = NoStr,
                  !.session.responseStartTimestamp = NoNum,
                  !.session.latestMediaTimestamp = NoNum,
                  !.session.saved_config = NoStr]

\* the "close" listener handleCallConnection registers on a telephony socket
onTwilioClose(w) ==
    LET w1 == cleanupAIProvider(w)
        w2 == [w1 EXCEPT !.conn = cleanupConnection(@, w1.session.twilioConn)]
        w3 == [w2 EXCEPT !.session.twilioConn = NoRef,
                         !.session.aiProvider = NoRef,
                         !.session.streamSid = NoStr,
                         !.session.lastAssistantItem = NoStr,
                         !.session.responseStartTimestamp = NoNum,
                         !.session.latestMediaTimestamp = NoNum]
    IN IF w3.session.frontendConn = NoRef
       THEN [w3 EXCEPT !.session = EmptySession]
       ELSE w3

\* the "close" listener handleFrontendConnection registers on an observer socket
onFrontendClose(w) ==
    LET w1 == [w EXCEPT !.logs = cleanupConnection(@, w.session.frontendConn)]
        w2 == [w1 EXCEPT !.session.frontendConn = NoRef]
    IN IF w2.session.twilioConn = NoRef /\ w2.session.aiProvider = NoRef
       THEN [w2 EXCEPT !.session = EmptySession]
       ELSE w2

\* handleCallConnection with the first two statements swapped: the socket is
\* attached before cleanupConnection(session.twilioConn) runs
handleCallConnection_attachFirst(w, c, apiKey) ==
    LET w1 == [w EXCEPT !.session.twilioConn = c, !.session.apiKeys = apiKey]
    IN [w1 EXCEPT !.conn = cleanupConnection(@, w1.session.twilioConn)]

\* handleCallConnection(ws, apiKeys), before the listeners are registered
handleCallConnection(w, c, apiKey) ==
    [w EXCEPT !.conn = cleanupConnection(@, w.session.twilioConn),
              !.session.twilioConn = c,
              !.session.apiKeys = apiKey]

\* handleFrontendConnection that attaches the socket only when the Session
\* has no observer leg
handleFrontendConnection_attachIfNone(w, f) ==
    [w EXCEPT !.logs = cleanupConnection(@, w.session.frontendConn),
              !.session.frontendConn = IF @ = NoRef THEN f ELSE @]

\* handleFrontendConnection(ws), before the listeners are registered
handleFrontendConnection(w, f) ==
    [w EXCEPT !.logs = cleanupConnection(@, w.session.frontendConn),
              !.session.frontendConn = f]

\* the lowest Provider slot not yet used by `new OpenAIProvider`
FreshProvider(w) ==
    CHOOSE p \in ProviderIds :
        w.prov[p].sock = "NEW" /\ \A q \in 1..(p - 1) : w.prov[q].sock # "NEW"

\* the guards of tryConnectAIProvider that return before a Provider is created
connectSkipped(w) ==
    \/ w.session.twilioConn = NoRef
    \/ ~Truthy(w.session.streamSid)
    \/ w.session.apiKeys = NoStr
    \/ (w.session.aiProvider # NoRef /\ isConnected(w, w.session.aiProvider))
    \/ w.session.apiKeys = ""

\* createAIProvider(config) throws for a provider other than 'openai'
unsupported(modelConfig) == modelConfig.provider # "openai"

\* tryConnectAIProvider(); canTruncate: whether the created Provider
\* implements the optional truncate method. The error createAIProvider throws
\* is caught by the try block before session.aiProvider is assigned.
tryConnectAIProvider(w, canTruncate) ==
    IF connectSkipped(w) \/ unsupported(w.currentModelConfig) THEN w
    ELSE LET p == FreshProvider(w)
             w1 == [w EXCEPT !.session.aiProvider = p,
                             !.prov[p].truncate = canTruncate]
         IN connect(w1, p)

\* handleAIAudio with `session.lastAssistantItem = itemId` outside its `if`
handleAIAudio_itemAlways(w, audioData, itemId) ==
    IF w.session.twilioConn = NoRef \/ ~Truthy(w.session.streamSid) THEN w
    ELSE LET w1 == IF w.session.responseStartTimestamp = NoNum
                   THEN [w EXCEPT !.session.responseStartTimestamp =
                                      OrZero(w.session.latestMediaTimestamp)]
                   ELSE w
             w2 == [w1 EXCEPT !.session.lastAssistantItem =
                                  IF Truthy(itemId) THEN itemId ELSE NoStr]
             w3 == jsonSend(w2, w2.session.twilioConn, "media", w2.session.streamSid, audioData)
         IN jsonSend(w3, w3.session.twilioConn, "mark", w3.session.streamSid, NoStr)

\* handleAIAudio that sends the mark frame before the media frame
handleAIAudio_markFirst(w, audioData, itemId) ==
    IF w.session.twilioConn = NoRef \/ ~Truthy(w.session.streamSid) THEN w
    ELSE LET w1 == IF w.session.responseStartTimestamp = NoNum
                   THEN [w EXCEPT !.session.responseStartTimestamp =
                                      OrZero(w.session.latestMediaTimestamp)]
                   ELSE w
             w2 == IF Truthy(itemId)
                   THEN [w1 EXCEPT !.session.lastAssistantItem = itemId]
                   ELSE w1
             w3 == jsonSend(w2, w2.session.twilioConn, "mark", w2.session.streamSid, NoStr)
         IN jsonSend(w3, w3.session.twilioConn, "media", w3.session.streamSid, audioData)

\* handleAIAudio(audioData, itemId); itemId "" is an event without item id
handleAIAudio(w, audioData, itemId) ==
    IF w.session.twilioConn = NoRef \/ ~Truthy(w.session.streamSid) THEN w
    ELSE LET w1 == IF w.session.responseStartTimestamp = NoNum
                   THEN [w EXCEPT !.session.responseStartTimestamp =
                                      OrZero(w.session.latestMediaTimestamp)]
                   ELSE w
             w2 == IF Truthy(itemId)
                   THEN [w1 EXCEPT !.session.lastAssistantItem = itemId]
                   ELSE w1
             w3 == jsonSend(w2, w2.session.twilioConn, "media", w2.session.streamSid, audioData)
         IN jsonSend(w3, w3.session.twilioConn, "mark", w3.session.streamSid, NoStr)

\* audio_end_ms without the `elapsedMs > 0 ? elapsedMs : 0` clamp
audio_end_ms_unclamped(latestMediaTimestamp, responseStartTimestamp) ==
    OrZero(latestMediaTimestamp) - OrZero(responseStartTimestamp)

\* handleTruncation: audio_end_ms from the two timestamps
audio_end_ms(latestMediaTimestamp, responseStartTimestamp) ==
    LET elapsedMs == OrZero(latestMediaTimestamp) - OrZero(responseStartTimestamp)
    IN IF elapsedMs > 0 THEN elapsedMs ELSE 0

\* handleTruncation() that forgets `session.lastAssistantItem = undefined`
handleTruncation_itemKept(w) ==
    IF ~Truthy(w.session.lastAssistantItem)
       \/ w.session.responseStartTimestamp = NoNum
    THEN w
    ELSE LET p == w.session.aiProvider
             ms == audio_end_ms(w.session.latestMediaTimestamp,
                                w.session.responseStartTimestamp)
             w1 == IF p # NoRef /\ isConnected(w, p)
                   THEN IF w.prov[p].truncate /\ Truthy(w.session.lastAssistantItem)
                        THEN truncate(w, p, w.session.lastAssistantItem, ms)
                        ELSE interrupt(w, p)
                   ELSE w
             w2 == IF w1.session.twilioConn # NoRef /\ Truthy(w1.session.streamSid)
                   THEN jsonSend(w1, w1.session.twilioConn, "clear", w1.session.streamSid, NoStr)
                   ELSE w1
         IN [w2 EXCEPT !.session.responseStartTimestamp = NoNum]

\* handleTruncation()
handleTruncation(w) ==
    IF ~Truthy(w.session.lastAssistantItem)
       \/ w.session.responseStartTimestamp = NoNum
    THEN w
    ELSE LET p == w.session.aiProvider
             ms == audio_end_ms(w.session.latestMediaTimestamp,
                                w.session.responseStartTimestamp)
             w1 == IF p # NoRef /\ isConnected(w, p)
                   THEN IF w.prov[p].truncate /\ Truthy(w.session.lastAssistantItem)
                        THEN truncate(w, p, w.session.lastAssistantItem, ms)
                        ELSE interrupt(w, p)
                   ELSE w
             w2 == IF w1.session.twilioConn # NoRef /\ Truthy(w1.session.streamSid)
                   THEN jsonSend(w1, w1.session.twilioConn, "clear", w1.session.streamSid, NoStr)
                   ELSE w1
         IN [w2 EXCEPT !.session.lastAssistantItem = NoStr,
                       !.session.responseStartTimestamp = NoNum]

\* handleTwilioMessage, case "start"
onTwilioStart(w, streamSid, canTruncate) ==
    LET w1 == [w EXCEPT !.session.streamSid = streamSid,
                        !.session.latestMediaTimestamp = 0,
                        !.session.lastAssistantItem = NoStr,
                        !.session.responseStartTimestamp = NoNum]
        w2 == IF Truthy(streamSid)
              THEN [w1 EXCEPT !.carts[streamSid] = NoCart,
                              !.currentSessionId = streamSid]
              ELSE w1
    IN tryConnectAIProvider(w2, canTruncate)

\* case "media" that forwards the payload without storing msg.media.timestamp
onTwilioMedia_timestampDropped(w, timestamp, payload) ==
    LET p == w.session.aiProvider
    IN IF p # NoRef /\ isConnected(w, p) THEN sendAudio(w, p, payload) ELSE w

\* case "media" that returns before storing msg.media.timestamp when there
\* is no connected Provider to forward to
onTwilioMedia_guardFirst(w, timestamp, payload) ==
    LET p == w.session.aiProvider
    IN IF p # NoRef /\ isConnected(w, p)
       THEN sendAudio([w EXCEPT !.session.latestMediaTimestamp = timestamp], p, payload)
       ELSE w

\* handleTwilioMessage, case "media"
onTwilioMedia(w, timestamp, payload) ==
    LET w1 == [w EXCEPT !.session.latestMediaTimestamp = timestamp]
        p == w1.session.aiProvider
    IN IF p # NoRef /\ isConnected(w1, p) THEN sendAudio(w1, p, payload) ELSE w1

\* handleTwilioMessage, case "close"
onTwilioCloseEnvelope(w) == closeAllConnections(w)

\* handleTwilioMessage on a message of MalformedTwilioMessages: parseMessage
\* returns null for unparseable text and `!msg` also returns for JSON null; a
\* start without start object throws at msg.start.streamSid and a media
\* without media object at msg.media.timestamp, both before the assignment;
\* an object without event matches no case
onTwilioMalformed(w, data) ==
    CASE data \in {"{not json", "null"} -> w
      [] data \in {"{\"event\":\"start\"}", "{\"event\":\"media\"}"} -> throw(w, "TypeError")
      [] OTHER -> w

\* handleFrontendMessage that also applies the configuration to the Provider
handleFrontendMessage_applied(w, config) ==
    LET w1 == [w EXCEPT !.session.saved_config = config]
        p == w1.session.aiProvider
    IN IF p # NoRef THEN sendMessage(w1, p, "session.update", config, NoNum, NoStr) ELSE w1

\* handleFrontendMessage, type "session.update"
handleFrontendMessage(w, config) == [w EXCEPT !.session.saved_config = config]

\* handleFrontendMessage on a message of MalformedFrontendMessages:
\* parseMessage returns null, `!msg` returns, or msg.type is not session.update
onFrontendMalformed(w, data) == w

\* ------------------------------------------------------ function dispatch
\* functionHandlers.ts: the schema names pushed onto `functions`
RegisteredFunctions ==
    {"get_menu", "get_menu_item", "add_to_cart", "get_cart", "update_cart_item",
     "remove_from_cart", "place_order", "get_order_status", "cancel_order"}

\* whether JSON.parse(item.arguments) returns
parses(rawArguments) == rawArguments # "{not json"

\* the structured error payloads of handleFunctionCall
InvalidJsonPayload == "{error:Invalid JSON arguments for function call.}"

HandlerErrorPayload(name) == "{error:Error running function " \o name \o "}"

\* the rejection of handleFunctionCall for an unregistered name
NoHandlerError(name) == "No handler found for function: " \o name

\* OpenAIProvider.sendFunctionResponse({name, call_id, response})
sendFunctionResponse(w, p, call_id, response) ==
    LET w1 == [w EXCEPT !.out = Append(@, EffD("call", "sendFunctionResponse", p,
                                               call_id, NoNum, response, NoStr))]
    IN IF ~w.prov[p].connected \/ ~w.prov[p].ws THEN w1
       ELSE sendMessage(
              sendMessage(w1, p, "conversation.item.create", call_id, NoNum, response),
              p, "response.create", NoStr, NoNum, NoStr)

\* the get_cart handler: reads the cart of currentSessionId
get_cart(w, args) ==
    [w |-> w, failed |-> FALSE, suspended |-> FALSE, output |-> "{get_cart}"]

\* menuData getMenuItemById(itemId) on the default menu, prices in cents: a
\* pizza priced by size, an appetizer with one price, and no item for any
\* other id
getMenuItemById(itemId) ==
    CASE itemId = "pizza_margherita" ->
           [found |-> TRUE, sized |-> TRUE, small |-> 1499, medium |-> 1899,
            large |-> 2299, price |-> 0]
      [] itemId = "app_garlic_bread" ->
           [found |-> TRUE, sized |-> FALSE, small |-> 0, medium |-> 0, large |-> 0,
            price |-> 799]
      [] OTHER ->
           [found |-> FALSE, sized |-> FALSE, small |-> 0, medium |-> 0, large |-> 0,
            price |-> 0]

\* add_to_cart: unitPrice of a menu item for `itemRequest.size || 'medium'`;
\* a size the item has no price for takes the first price, small
unitPriceOf(menuItem, size) ==
    IF menuItem.sized
    THEN CASE size \in {NoStr, "", "medium"} -> menuItem.medium
           [] size = "large" -> menuItem.large
           [] OTHER -> menuItem.small
    ELSE menuItem.price

\* `itemRequest.quantity || 1`
OrOne(quantity) == IF quantity = NoNum \/ quantity = 0 THEN 1 ELSE quantity

\* cart.items.reduce((sum, item) => sum + item.price, 0)
RECURSIVE reduce(_)
reduce(items) == IF items = <<>> THEN 0 ELSE reduce(Tail(items)) + Head(items).price

\* the cartItemId values held by the items of a sequence of item lists
RECURSIVE HeldIds(_)
HeldIds(lists) ==
    IF lists = <<>> THEN {}
    ELSE {Head(lists)[i].cartItemId : i \in 1..Len(Head(lists))} \cup HeldIds(Tail(lists))

\* cartStorage.generateCartItemId(): an id no cart item carries, here the
\* lowest one
generateCartItemId(w) ==
    LET held == HeldIds([i \in 1..Len(w.orders) |-> w.orders[i].items])
                  \cup UNION {HeldIds(<<w.carts[k].items>>) : k \in SessionKeys}
    IN CHOOSE n \in 1..(Cardinality(held) + 1) :
         /\ n \notin held
         /\ \A m \in 1..(n - 1) : m \in held

\* cartStorage.createCart(sessionId)
createCart(w, k) == [w EXCEPT !.carts[k] = [exists |-> TRUE, items |-> <<>>, total |-> 0]]

\* add_to_cart: the loop over args.items, then the total; requests for
\* unknown menu items are skipped
RECURSIVE pushItems(_, _, _)
pushItems(w, k, requests) ==
    IF requests = <<>>
    THEN [w EXCEPT !.carts[k].total = reduce(w.carts[k].items)]
    ELSE LET itemRequest == Head(requests)
             menuItem == getMenuItemById(itemRequest.itemId)
             quantity == OrOne(itemRequest.quantity)
             unitPrice == unitPriceOf(menuItem, itemRequest.size)
             cartItem == [cartItemId |-> generateCartItemId(w),
                          itemId |-> itemRequest.itemId,
                          quantity |-> quantity,
                          unitPrice |-> unitPrice,
                          price |-> unitPrice * quantity]
         IN IF ~menuItem.found
            THEN pushItems(w, k, Tail(requests))
            ELSE pushItems([w EXCEPT !.carts[k].items = Append(@, cartItem)], k,
                           Tail(requests))

\* the items array of the add_to_cart request ItemsArgument
ItemsRequested == <<[itemId |-> "pizza_margherita", quantity |-> NoNum, size |-> NoStr]>>

\* the add_to_cart handler on parsed arguments with an items array
addItems(w, requests) ==
    LET k == w.currentSessionId
        w1 == IF w.carts[k].exists THEN w ELSE createCart(w, k)
    IN [w |-> pushItems(w1, k, requests), failed |-> FALSE, suspended |-> FALSE,
        output |-> "{success:true}"]

\* the add_to_cart handler: the cart is fetched or created before args.items
\* is iterated, so a request without items fails after createCart
add_to_cart(w, args) ==
    LET k == w.currentSessionId
        w1 == IF w.carts[k].exists THEN w ELSE createCart(w, k)
    IN IF args # ItemsArgument
       THEN [w |-> w1, failed |-> TRUE, suspended |-> FALSE, output |-> NoStr]
       ELSE addItems(w, ItemsRequested)

\* the payloads of update_cart_item and remove_from_cart
CartNotFoundPayload == "{error:Cart not found}"

CartItemNotFoundPayload == "{error:Cart item not found}"

\* cart.items.findIndex(item => item.cartItemId === cartItemId); 0 for -1
findIndex(items, cartItemId) ==
    IF \A i \in 1..Len(items) : items[i].cartItemId # cartItemId THEN 0
    ELSE CHOOSE i \in 1..Len(items) :
           /\ items[i].cartItemId = cartItemId
           /\ \A j \in 1..(i - 1) : items[j].cartItemId # cartItemId

\* the update_cart_item handler on {cartItemId, quantity}
update_cart_item(w, cartItemId, quantity) ==
    LET k == w.currentSessionId
        cart == w.carts[k]
        itemIndex == findIndex(cart.items, cartItemId)
        items == IF quantity <= 0
                 THEN Without(cart.items, itemIndex)
                 ELSE [cart.items EXCEPT ![itemIndex].quantity = quantity,
                                         ![itemIndex].price =
                                             cart.items[itemIndex].unitPrice * quantity]
    IN IF ~cart.exists
       THEN [w |-> w, failed |-> FALSE, suspended |-> FALSE, output |-> CartNotFoundPayload]
       ELSE IF itemIndex = 0
       THEN [w |-> w, failed |-> FALSE, suspended |-> FALSE,
             output |-> CartItemNotFoundPayload]
       ELSE [w |-> [w EXCEPT !.carts[k].items = items, !.carts[k].total = reduce(items)],
             failed |-> FALSE, suspended |-> FALSE, output |-> "{success:true}"]

\* the remove_from_cart handler on {cartItemId}
remove_from_cart(w, cartItemId) ==
    LET k == w.currentSessionId
        cart == w.carts[k]
        itemIndex == findIndex(cart.items, cartItemId)
        items == Without(cart.items, itemIndex)
    IN IF ~cart.exists
       THEN [w |-> w, failed |-> FALSE, suspended |-> FALSE, output |-> CartNotFoundPayload]
       ELSE IF itemIndex = 0
       THEN [w |-> w, failed |-> FALSE, suspended |-> FALSE,
             output |-> CartItemNotFoundPayload]
       ELSE [w |-> [w EXCEPT !.carts[k].items = items, !.carts[k].total = reduce(items)],
             failed |-> FALSE, suspended |-> FALSE, output |-> "{success:true}"]

\* the payloads of place_order
EmptyCartPayload == "{error:Cannot place order: cart is empty}"

OrderPlacedPayload == "{success:true,message:Order placed successfully!}"

\* the place_order handler: the order is created and the cart cleared before
\* the confirmation SMS; with a phone number in customerInfo the handler
\* awaits sendSms (Twilio client configured) and is suspended until it settles.
\* The start envelopes of the model carry no callSid, so getCallerForSession
\* finds no caller number.
place_order_keepCart(w, args) ==
    LET k == w.currentSessionId
        cart == w.carts[k]
    IN IF ~cart.exists \/ cart.items = <<>>
       THEN [w |-> w, failed |-> FALSE, suspended |-> FALSE, output |-> EmptyCartPayload]
       ELSE IF args = "null"
       THEN [w |-> w, failed |-> TRUE, suspended |-> FALSE, output |-> NoStr]
       ELSE [w |-> [w EXCEPT !.orders = Append(@, [sessionId |-> k, items |-> cart.items,
                                                    total |-> cart.total,
                                                    status |-> "confirmed"])],
             failed |-> FALSE, suspended |-> (args = PhoneArgument),
             output |-> OrderPlacedPayload]

place_order(w, args) ==
    LET k == w.currentSessionId
        cart == w.carts[k]
    IN IF ~cart.exists \/ cart.items = <<>>
       THEN [w |-> w, failed |-> FALSE, suspended |-> FALSE, output |-> EmptyCartPayload]
       ELSE IF args = "null"
       THEN [w |-> w, failed |-> TRUE, suspended |-> FALSE, output |-> NoStr]
       ELSE [w |-> [w EXCEPT !.orders = Append(@, [sessionId |-> k, items |-> cart.items,
                                                    total |-> cart.total,
                                                    status |-> "confirmed"]),
                             !.carts[k] = NoCart],
             failed |-> FALSE, suspended |-> (args = PhoneArgument),
             output |-> OrderPlacedPayload]

\* fnDef.handler(args) of the registered function `name`
handler(w, name, args) ==
    LET w1 == [w EXCEPT !.out = Append(@, EffD("handler", name, NoRef, NoStr, NoNum,
                                               NoStr, args))]
    IN CASE name = "add_to_cart" -> add_to_cart(w1, args)
         [] name = "place_order" -> place_order(w1, args)
         [] OTHER -> get_cart(w1, args)

\* handleFunctionCall without the try/catch around JSON.parse: the raw string
\* reaches the handler
handleFunctionCall_unparsed(w, name, rawArguments) ==
    IF name \notin RegisteredFunctions
    THEN [w |-> w, rejected |-> TRUE, suspended |-> FALSE, output |-> NoHandlerError(name)]
    ELSE LET r == handler(w, name, rawArguments)
         IN IF r.failed
            THEN [w |-> r.w, rejected |-> FALSE, suspended |-> FALSE,
                  output |-> HandlerErrorPayload(name)]
            ELSE [w |-> r.w, rejected |-> FALSE, suspended |-> r.suspended,
                  output |-> r.output]

\* handleFunctionCall without the try/catch around the handler: its failure
\* rejects the dispatcher's promise
handleFunctionCall_uncaught(w, name, rawArguments) ==
    IF name \notin RegisteredFunctions
    THEN [w |-> w, rejected |-> TRUE, suspended |-> FALSE, output |-> NoHandlerError(name)]
    ELSE IF ~parses(rawArguments)
    THEN [w |-> w, rejected |-> FALSE, suspended |-> FALSE, output |-> InvalidJsonPayload]
    ELSE LET r == handler(w, name, rawArguments)
         IN IF r.failed
            THEN [w |-> r.w, rejected |-> TRUE, suspended |-> FALSE,
                  output |-> HandlerErrorPayload(name)]
            ELSE [w |-> r.w, rejected |-> FALSE, suspended |-> r.suspended,
                  output |-> r.output]

\* handleFunctionCall(item): the world after it, whether its promise is
\* rejected, whether it is suspended at an await, and the value it resolves to
handleFunctionCall(w, name, rawArguments) ==
    IF name \notin RegisteredFunctions
    THEN [w |-> w, rejected |-> TRUE, suspended |-> FALSE, output |-> NoHandlerError(name)]
    ELSE IF ~parses(rawArguments)
    THEN [w |-> w, rejected |-> FALSE, suspended |-> FALSE, output |-> InvalidJsonPayload]
    ELSE LET r == handler(w, name, rawArguments)
         IN IF r.failed
            THEN [w |-> r.w, rejected |-> FALSE, suspended |-> FALSE,
                  output |-> HandlerErrorPayload(name)]
            ELSE [w |-> r.w, rejected |-> FALSE, suspended |-> r.suspended,
                  output |-> r.output]

\* the .then of the 'functionCall' listener answering with the call_id of
\* the call issued last instead of the one captured by its closure
deliver_latestCallId(w, p, call_id, output) ==
    LET id == IF w.inflight # <<>> THEN w.inflight[Len(w.inflight)].call_id ELSE call_id
        w1 == [w EXCEPT !.out = Append(@, EffD("return", "handleFunctionCall", NoRef,
                                               id, NoNum, output, NoStr))]
    IN IF w1.session.aiProvider # NoRef
       THEN sendFunctionResponse(w1, w1.session.aiProvider, id, output)
       ELSE w1

\* the .then of the 'functionCall' listener answering on the Provider that
\* issued the call instead of the Provider the Session holds
deliver_toIssuer(w, p, call_id, output) ==
    sendFunctionResponse(
        [w EXCEPT !.out = Append(@, EffD("return", "handleFunctionCall", NoRef,
                                         call_id, NoNum, output, NoStr))],
        p, call_id, output)

\* the .then of the 'functionCall' listener: the output goes to the Provider
\* the Session holds when the promise settles
deliver(w, p, call_id, output) ==
    LET w1 == [w EXCEPT !.out = Append(@, EffD("return", "handleFunctionCall", NoRef,
                                               call_id, NoNum, output, NoStr))]
    IN IF w1.session.aiProvider # NoRef
       THEN sendFunctionResponse(w1, w1.session.aiProvider, call_id, output)
       ELSE w1

\* the 'functionCall' listener of tryConnectAIProvider on Provider p, up to
\* the first await that needs I/O: a handler that settles without I/O has its
\* .then/.catch continuation run before the next event, a suspended one is
\* recorded as in flight
onFunctionCall(w, p, name, rawArguments, call_id) ==
    LET r == handleFunctionCall(w, name, rawArguments)
    IN IF r.rejected
       THEN [r.w EXCEPT !.out = Append(@, EffD("reject", "handleFunctionCall", NoRef,
                                               call_id, NoNum, r.output, NoStr))]
       ELSE IF r.suspended
       THEN [r.w EXCEPT !.inflight = Append(@, [call_id |-> call_id, name |-> name,
                                                 output |-> r.output, p |-> p])]
       ELSE deliver(r.w, p, call_id, r.output)

\* sendSms settles (resolved, or rejected and caught by place_order): the
\* i-th call in flight resumes, returns, and the listener's .then runs
onFunctionCallSettled(w, i) ==
    LET call == w.inflight[i]
    IN deliver([w EXCEPT !.inflight = Without(@, i)], call.p, call.call_id, call.output)

\* ------------------------------------------------- OpenAIProvider listeners
\* OpenAIProvider.sendSessionUpdate()
sendSessionUpdate(w, p) ==
    IF ~w.prov[p].ws \/ ~w.prov[p].connected THEN w
    ELSE sendMessage(w, p, "session.update", NoStr, NoNum, NoStr)

\* the "open" listener emitting 'open' before it calls sendSessionUpdate
onProviderSocketOpen_emitFirst(w, p) ==
    LET w1 == [w EXCEPT !.prov[p].sock = "OPEN", !.prov[p].connected = TRUE,
                        !.out = Append(@, Eff("emit", "open", p, NoStr, NoNum))]
    IN sendSessionUpdate(w1, p)

\* ws.on("open") of connect(): connected, session.update sent, 'open'
\* emitted; the session manager's 'open' listener only logs
onProviderSocketOpen(w, p) ==
    LET w1 == sendSessionUpdate(
                [w EXCEPT !.prov[p].sock = "OPEN", !.prov[p].connected = TRUE], p)
    IN [w1 EXCEPT !.out = Append(@, Eff("emit", "open", p, NoStr, NoNum))]

\* handleMessage, default branch: 'rawMessage' is emitted and the session
\* manager registers no listener for it
onProviderRawMessage(w, p) == w

\* handleMessage on a message of MalformedProviderMessages: JSON.parse throws,
\* event.type of null throws, item.type of an absent item throws; the try
\* block around the whole method catches each and only logs
onProviderMalformed(w, p, data) == w

\* the 'error' listener tearing down every leg instead of the Provider only
onProviderSocketError_closeAll(w, p) == closeAllConnections(w)

\* ws.on("error") of connect(): 'error' emitted to the session's listener
onProviderSocketError(w, p) == cleanupAIProvider(w)

\* the 'close' listener attempting a new connection after the cleanup
onProviderSocketClose_reconnect(w, p) ==
    tryConnectAIProvider(
        cleanupAIProvider([w EXCEPT !.prov[p].sock = "CLOSED", !.prov[p].connected = FALSE]),
        TRUE)

\* ws.on("close") of connect(): not connected, 'close' emitted to the listener
onProviderSocketClose(w, p) ==
    cleanupAIProvider([w EXCEPT !.prov[p].sock = "CLOSED", !.prov[p].connected = FALSE])

\* ------------------------------------------------ server.ts: recordings
\* a recording no status webhook named yet: no download, no file, no upload
NoRecording == [stage |-> "none", file |-> FALSE, drive |-> FALSE]

\* the HTTP status of the response to the download request
StatusCodes == {200, 404}
\* what uploadRecording resolves with: the Drive file id, or null after any
\* error it caught
DriveFileIds == {"drive-file-id", "null"}

\* downloadRecording with the Twilio client configured: createWriteStream
\* creates the local file, https.get issues the request
downloadRecording(rec) == [rec EXCEPT !.stage = "requested", !.file = TRUE]

\* the https.get callback: a status other than 200 rejects, 200 pipes the
\* response into the file
onDownloadResponse(rec, statusCode) ==
    IF statusCode # 200
    THEN [rec EXCEPT !.stage = "rejected"]
    ELSE [rec EXCEPT !.stage = "piping"]

\* the 'error' listener of the request
onDownloadError(rec) == [rec EXCEPT !.stage = "rejected"]

\* file.on('finish') up to its await: the recording is saved; with Drive
\* storage configured the upload starts, without it the promise resolves
onFileFinish(rec, driveStorage) ==
    IF driveStorage
    THEN [rec EXCEPT !.stage = "uploading"]
    ELSE [rec EXCEPT !.stage = "resolved"]

\* GoogleDriveStorage.uploadRecording: null when the local file is missing,
\* else the id of the file created, or null when the request failed
uploadRecording(rec, result) == IF ~rec.file THEN "null" ELSE result

\* file.on('finish') after its await: with a Drive file id the local file is
\* unlinked (a failure of unlinkSync is caught and the file stays); without
\* one the local file is left alone; the promise resolves
onUploadSettled(rec, driveFileId, unlinkThrows) ==
    IF driveFileId # "null"
    THEN [rec EXCEPT !.stage = "resolved", !.drive = TRUE, !.file = unlinkThrows]
    ELSE [rec EXCEPT !.stage = "resolved"]

\* ------------------------------------------------------------------ state
\* a Provider socket that carried no outbound message yet
NoWire == [first |-> NoStr, updates |-> 0]

\* the messages a handler's record shows written to Provider p's socket
Written(seq, p) == SelectSeq(seq, LAMBDA e : e.ch = "provider" /\ e.id = p)

\* the socket of Provider p after the handler's writes: the type of the
\* first message it ever carried, and how many session.update messages (two
\* stands for two or more)
Wired(sofar, seq, p) ==
    LET msgs == Written(seq, p)
        n == sofar.updates + Len(SelectSeq(msgs, LAMBDA e : e.op = "session.update"))
    IN [first |-> IF sofar.first # NoStr \/ msgs = <<>> THEN sofar.first ELSE msgs[1].op,
        updates |-> IF n > 2 THEN 2 ELSE n]

Loaded ==
    /\ session = EmptySession
    /\ conn = [c \in CallIds |-> "NEW"]
    /\ logs = [f \in LogIds |-> "NEW"]
    /\ prov = [p \in ProviderIds |-> NoProvider]
    /\ currentCall = NoRef
    /\ currentLogs = NoRef
    /\ OPENAI_API_KEY \in {"", "sk-key"}
    /\ currentModelConfig = DEFAULT_MODEL
    /\ currentSessionId = "default_session"
    /\ carts = [k \in SessionKeys |-> NoCart]
    /\ orders = <<>>
    /\ inflight = <<>>
    /\ out = <<>>
    /\ wire = [p \in ProviderIds |-> NoWire]
    /\ recordings = [r \in RecordingIds |-> NoRecording]
    /\ scenario = 0

\* the state after the modules are loaded, without Google Drive credentials
\* in the environment; `out` is not recorded
Init == Loaded /\ googleDriveStorage = FALSE /\ probe = FALSE

\* the same state, in a behaviour that records `out`
InitProbe == Loaded /\ googleDriveStorage = FALSE /\ probe = TRUE

\* the state after the modules are loaded, with or without Google Drive
\* credentials in the environment
InitRecording == Loaded /\ googleDriveStorage \in BOOLEAN /\ probe = TRUE

\* the events of an aborted handshake, which the ws library emits on the
\* next tick, before any other event: the socket's "error", then its "close"
nextTick(w) ==
    LET aborting == {p \in ProviderIds : w.prov[p].sock = "ABORTING"}
    IN IF aborting = {} THEN w
       ELSE LET p == CHOOSE q \in aborting : TRUE
            IN onProviderSocketClose(
                 onProviderSocketError([w EXCEPT !.prov[p].sock = "CLOSING"], p), p)

\* an error that leaves a listener uncaught ends the process (no
\* uncaughtException listener is registered): no event is handled after it
Running == \A i \in 1..Len(out) : out[i].ch # "throw"

\* the handler's result, after the tick it queued, becomes the state
Commit(w) ==
    LET w1 == nextTick(w)
    IN /\ Running
       /\ session' = w1.session
       /\ conn' = w1.conn
       /\ logs' = w1.logs
       /\ prov' = w1.prov
       /\ currentSessionId' = w1.currentSessionId
       /\ carts' = w1.carts
       /\ orders' = w1.orders
       /\ inflight' = w1.inflight
       /\ out' = IF probe THEN w1.out ELSE <<>>
       /\ wire' = IF probe THEN [p \in ProviderIds |-> Wired(wire[p], w1.out, p)] ELSE wire
       /\ probe' = probe

\* the next socket the server accepts, of an array of sockets
NextSocket(socks, c) == socks[c] = "NEW" /\ \A d \in 1..(c - 1) : socks[d] # "NEW"

\* the lowest unused Provider slot is among the first maxProviders
ProviderLeft(w, maxProviders) ==
    \E p \in 1..maxProviders : p \in ProviderIds /\ w.prov[p].sock = "NEW"

\* events of a socket are delivered until its close event
Delivering(state) == state \in {"OPEN", "CLOSING"}

\* the listeners of every socket of a leg are the same function of `session`:
\* the lowest delivering socket stands for the sender of a message
Sender(socks, c) ==
    Delivering(socks[c]) /\ \A d \in 1..(c - 1) : ~Delivering(socks[d])

\* ------------------------------------------------------------------ steps
\* One step per event handler, with the event's inputs as parameters; the
\* specifications below draw the inputs and add the scenario's progress.

\* server.ts and aiConfig state no handler of the bridge writes
ServerUnchanged ==
    UNCHANGED <<currentCall, currentLogs, OPENAI_API_KEY, currentModelConfig,
                recordings, googleDriveStorage>>

\* server.ts wss.on("connection"), path /call
CallConnectionStep(c) ==
    /\ NextSocket(conn, c)
    /\ LET w0 == [Handling("connection:call", c, NoStr, NoNum) EXCEPT !.conn[c] = "OPEN"]
           w1 == IF currentCall # NoRef
                 THEN [w0 EXCEPT !.conn[currentCall] = wsClose(@)]
                 ELSE w0
       IN Commit(handleCallConnection(w1, c, OPENAI_API_KEY))
    /\ currentCall' = c
    /\ UNCHANGED <<currentLogs, OPENAI_API_KEY, currentModelConfig, recordings,
                   googleDriveStorage>>

\* server.ts wss.on("connection"), path /logs
FrontendConnectionStep(f) ==
    /\ NextSocket(logs, f)
    /\ LET w0 == [Handling("connection:logs", f, NoStr, NoNum) EXCEPT !.logs[f] = "OPEN"]
           w1 == IF currentLogs # NoRef
                 THEN [w0 EXCEPT !.logs[currentLogs] = wsClose(@)]
                 ELSE w0
       IN Commit(handleFrontendConnection(w1, f))
    /\ currentLogs' = f
    /\ UNCHANGED <<currentCall, OPENAI_API_KEY, currentModelConfig, recordings,
                   googleDriveStorage>>

\* a telephony socket starts closing: the peer's close frame or a transport
\* error arrived (the "error" listener, ws.close, finds the socket closing)
TwilioSocketClosingStep(c) ==
    /\ conn[c] = "OPEN"
    /\ Commit([Handling("twilio:closing", c, NoStr, NoNum) EXCEPT !.conn[c] = "CLOSING"])
    /\ ServerUnchanged

\* the "close" event of a telephony socket
TwilioSocketClosedStep(c) ==
    /\ conn[c] = "CLOSING"
    /\ Commit(onTwilioClose(
                [Handling("twilio:close", c, NoStr, NoNum) EXCEPT !.conn[c] = "CLOSED"]))
    /\ ServerUnchanged

\* a telephony `start` envelope; a Provider it creates is among the first
\* maxProviders
TwilioStartStep(c, streamSid, canTruncate, maxProviders) ==
    /\ Delivering(conn[c])
    /\ LET w1 == [World EXCEPT !.session.streamSid = streamSid]
       IN connectSkipped(w1) \/ ProviderLeft(w1, maxProviders)
    /\ Commit(onTwilioStart(Handling("start", c, streamSid, NoNum), streamSid, canTruncate))
    /\ ServerUnchanged

\* a telephony `media` envelope
TwilioMediaStep(c, timestamp, payload) ==
    /\ Delivering(conn[c])
    /\ Commit(onTwilioMedia(Handling("media", c, payload, timestamp), timestamp, payload))
    /\ ServerUnchanged

\* a telephony `close` envelope
TwilioCloseEnvelopeStep(c) ==
    /\ Delivering(conn[c])
    /\ Commit(onTwilioCloseEnvelope(Handling("close", c, NoStr, NoNum)))
    /\ ServerUnchanged

\* an observer `session.update` message
FrontendMessageStep(f, config) ==
    /\ Delivering(logs[f])
    /\ Commit(handleFrontendMessage(Handling("session.update", f, config, NoNum), config))
    /\ ServerUnchanged

\* a telephony message that is not a well-formed envelope
TwilioMalformedStep(c, data) ==
    /\ Delivering(conn[c])
    /\ Commit(onTwilioMalformed(Handling("twilio:malformed", c, data, NoNum), data))
    /\ ServerUnchanged

\* an observer message that is not a well-formed session.update
FrontendMalformedStep(f, data) ==
    /\ Delivering(logs[f])
    /\ Commit(onFrontendMalformed(Handling("logs:malformed", f, data, NoNum), data))
    /\ ServerUnchanged

\* a Provider message that is not a well-formed event
ProviderMalformedStep(p, data) ==
    /\ Delivering(prov[p].sock)
    /\ Commit(onProviderMalformed(Handling("provider:malformed", p, data, NoNum), p, data))
    /\ ServerUnchanged

\* an observer socket starts closing
FrontendSocketClosingStep(f) ==
    /\ logs[f] = "OPEN"
    /\ Commit([Handling("logs:closing", f, NoStr, NoNum) EXCEPT !.logs[f] = "CLOSING"])
    /\ ServerUnchanged

\* the "close" event of an observer socket
FrontendSocketClosedStep(f) ==
    /\ logs[f] = "CLOSING"
    /\ Commit(onFrontendClose(
                [Handling("logs:close", f, NoStr, NoNum) EXCEPT !.logs[f] = "CLOSED"]))
    /\ ServerUnchanged

\* the "open" event of a Provider's socket
ProviderOpenStep(p) ==
    /\ prov[p].sock = "CONNECTING"
    /\ Commit(onProviderSocketOpen(Handling("provider:open", p, NoStr, NoNum), p))
    /\ ServerUnchanged

\* a Provider's handshake fails: the socket's "error" event and then its
\* "close" event, in one tick
ProviderConnectFailedStep(p) ==
    /\ prov[p].sock = "CONNECTING"
    /\ Commit(onProviderSocketClose(
                onProviderSocketError(
                  [Handling("provider:connectFailed", p, NoStr, NoNum)
                     EXCEPT !.prov[p].sock = "CLOSING"], p), p))
    /\ ServerUnchanged

\* the "error" event of an open Provider socket
ProviderSocketErrorStep(p) ==
    /\ prov[p].sock = "OPEN"
    /\ Commit(onProviderSocketError(
                [Handling("provider:error", p, NoStr, NoNum)
                   EXCEPT !.prov[p].sock = "CLOSING"], p))
    /\ ServerUnchanged

\* the "close" event of a Provider socket that was open
ProviderSocketClosedStep(p) ==
    /\ prov[p].sock \in {"OPEN", "CLOSING"}
    /\ Commit(onProviderSocketClose(Handling("provider:close", p, NoStr, NoNum), p))
    /\ ServerUnchanged

\* response.audio.delta on a Provider socket: the 'audio' listener
ProviderAudioStep(p, audioData, itemId) ==
    /\ Delivering(prov[p].sock)
    /\ Commit(handleAIAudio(
                [World EXCEPT !.out = <<EffD("event", "audio", p, itemId, NoNum, audioData,
                                             NoStr)>>],
                audioData, itemId))
    /\ ServerUnchanged

\* input_audio_buffer.speech_started on a Provider socket
ProviderSpeechStartedStep(p) ==
    /\ Delivering(prov[p].sock)
    /\ Commit(handleTruncation(Handling("speechStarted", p, NoStr, NoNum)))
    /\ ServerUnchanged

\* a Provider message of a type handleMessage does not name, such as the
\* response.done that ends an utterance
ProviderRawMessageStep(p, type) ==
    /\ Delivering(prov[p].sock)
    /\ Commit(onProviderRawMessage(Handling("rawMessage", p, type, NoNum), p))
    /\ ServerUnchanged

\* response.output_item.done with a function_call item on a Provider socket
ProviderFunctionCallStep(p, name, rawArguments, call_id) ==
    /\ Delivering(prov[p].sock)
    /\ name = "add_to_cart" => Len(carts[currentSessionId].items) < MaxCartItems
    /\ \A i \in 1..Len(inflight) : inflight[i].call_id # call_id
    /\ Len(orders) < MaxOrders
    /\ Commit(onFunctionCall(
                [World EXCEPT !.out = <<EffD("event", "functionCall", p, call_id, NoNum,
                                             name, rawArguments)>>],
                p, name, rawArguments, call_id))
    /\ ServerUnchanged

\* the sendSms promise of the i-th call in flight settles
FunctionCallSettledStep(i) ==
    /\ i \in 1..Len(inflight)
    /\ Commit(onFunctionCallSettled(
                Handling("settled", inflight[i].p, inflight[i].call_id, i), i))
    /\ ServerUnchanged

\* aiConfig setCurrentModel(modelId): the model found becomes the current
\* model and true is returned, or false and the current model stays
SetCurrentModelStep(modelId) ==
    /\ Running
    /\ LET model == getModelById(modelId)
       IN /\ currentModelConfig' = IF model # NoModel THEN model ELSE currentModelConfig
          /\ out' = IF probe
                    THEN <<EffD("event", "setCurrentModel", NoRef, NoStr, NoNum, NoStr,
                                modelId),
                           EffD("return", "setCurrentModel", NoRef, NoStr, NoNum,
                                IF model # NoModel THEN "true" ELSE "false", NoStr)>>
                    ELSE <<>>
    /\ UNCHANGED <<session, conn, logs, prov, currentCall, currentLogs, OPENAI_API_KEY,
                   currentSessionId, carts, orders, inflight, wire, recordings,
                   googleDriveStorage, probe>>

\* what a step on recording r leaves alone
BridgeUnchanged ==
    UNCHANGED <<session, conn, logs, prov, currentCall, currentLogs, OPENAI_API_KEY,
                currentModelConfig, currentSessionId, carts, orders, inflight, wire,
                googleDriveStorage, probe>>

\* the step of recording r that turns its record into rec
RecordingStep(event, r, rec) ==
    /\ Running
    /\ recordings' = [recordings EXCEPT ![r] = rec]
    /\ out' = IF probe
              THEN <<EffD("event", event, r, NoStr, NoNum, NoStr, NoStr)>>
              ELSE <<>>
    /\ BridgeUnchanged

\* POST /recording-status with RecordingStatus "completed" and a RecordingUrl
RecordingStatusStep(r) ==
    /\ recordings[r].stage = "none"
    /\ RecordingStep("recording:status", r, downloadRecording(recordings[r]))

\* the response to the download request arrives
DownloadResponseStep(r, statusCode) ==
    /\ recordings[r].stage = "requested"
    /\ RecordingStep("recording:response", r,
                     onDownloadResponse(recordings[r], statusCode))

\* the download request fails, before its response or while it is piped
DownloadErrorStep(r) ==
    /\ recordings[r].stage \in {"requested", "piping"}
    /\ RecordingStep("recording:error", r, onDownloadError(recordings[r]))

\* the write stream finished: the whole response is in the local file
FileFinishStep(r) ==
    /\ recordings[r].stage = "piping"
    /\ RecordingStep("recording:finish", r,
                     onFileFinish(recordings[r], googleDriveStorage))

\* the promise of uploadRecording settles
UploadSettledStep(r, result, unlinkThrows) ==
    /\ recordings[r].stage = "uploading"
    /\ RecordingStep("recording:uploaded", r,
                     onUploadSettled(recordings[r],
                                     uploadRecording(recordings[r], result),
                                     unlinkThrows))

\* ------------------------------------------- specification Spec: lifecycle
\* Every leg's connections, envelopes and socket events, with Providers that
\* implement truncate (OpenAIProvider).
CallConnection == \E c \in CallIds : CallConnectionStep(c) /\ UNCHANGED scenario

FrontendConnection ==
    \E f \in 1..LifecycleLogs :
        f \in LogIds /\ FrontendConnectionStep(f) /\ UNCHANGED scenario

TwilioSocketClosing ==
    \E c \in CallIds : TwilioSocketClosingStep(c) /\ UNCHANGED scenario

TwilioSocketClosed ==
    \E c \in CallIds : TwilioSocketClosedStep(c) /\ UNCHANGED scenario

TwilioStart ==
    \E c \in CallIds, streamSid \in LifecycleStreamSids :
        /\ Sender(conn, c)
        /\ TwilioStartStep(c, streamSid, TRUE, MaxProviders)
        /\ UNCHANGED scenario

TwilioMedia ==
    \E c \in CallIds, timestamp \in LifecycleTimestamps :
        /\ Sender(conn, c)
        /\ TwilioMediaStep(c, timestamp, "a")
        /\ UNCHANGED scenario

TwilioCloseEnvelope ==
    \E c \in CallIds :
        Sender(conn, c) /\ TwilioCloseEnvelopeStep(c) /\ UNCHANGED scenario

FrontendMessage ==
    \E f \in LogIds :
        Sender(logs, f) /\ FrontendMessageStep(f, "config") /\ UNCHANGED scenario

FrontendSocketClosing ==
    \E f \in LogIds : FrontendSocketClosingStep(f) /\ UNCHANGED scenario

FrontendSocketClosed ==
    \E f \in LogIds : FrontendSocketClosedStep(f) /\ UNCHANGED scenario

ProviderOpen == \E p \in ProviderIds : ProviderOpenStep(p) /\ UNCHANGED scenario

ProviderConnectFailed ==
    \E p \in ProviderIds : ProviderConnectFailedStep(p) /\ UNCHANGED scenario

ProviderSocketError ==
    \E p \in ProviderIds : ProviderSocketErrorStep(p) /\ UNCHANGED scenario

ProviderSocketClosed ==
    \E p \in ProviderIds : ProviderSocketClosedStep(p) /\ UNCHANGED scenario

ProviderAudio ==
    \E p \in ProviderIds, itemId \in ItemIds :
        /\ Sender([q \in ProviderIds |-> prov[q].sock], p)
        /\ ProviderAudioStep(p, "a", itemId)
        /\ UNCHANGED scenario

ProviderSpeechStarted ==
    \E p \in ProviderIds :
        /\ Sender([q \in ProviderIds |-> prov[q].sock], p)
        /\ ProviderSpeechStartedStep(p)
        /\ UNCHANGED scenario

Next ==
    \/ CallConnection
    \/ FrontendConnection
    \/ TwilioSocketClosing
    \/ TwilioSocketClosed
    \/ TwilioStart
    \/ TwilioMedia
    \/ TwilioCloseEnvelope
    \/ FrontendMessage
    \/ FrontendSocketClosing
    \/ FrontendSocketClosed
    \/ ProviderOpen
    \/ ProviderConnectFailed
    \/ ProviderSocketError
    \/ ProviderSocketClosed
    \/ ProviderAudio
    \/ ProviderSpeechStarted

Spec == Init /\ [][Next]_vars

\* --------------------------------------- specification SpecBargeIn: timing
\* One call's media clock, assistant audio and barge-in, with Providers that
\* do or do not implement truncate; `scenario` follows the events
\* start{S1}, media{0}, audio{I1}, media{500}, speechStarted.
BargeCallConnection ==
    \E c \in 1..BargeCalls : c \in CallIds /\ CallConnectionStep(c) /\ scenario' = 0

BargeSocketClosing ==
    \E c \in CallIds : TwilioSocketClosingStep(c) /\ scenario' = 0

BargeSocketClosed ==
    \E c \in CallIds : TwilioSocketClosedStep(c) /\ scenario' = 0

BargeStart ==
    \E c \in CallIds, canTruncate \in BOOLEAN :
        /\ TwilioStartStep(c, "S1", canTruncate, BargeProviders)
        /\ scenario' = IF c = session.twilioConn /\ conn[c] = "OPEN" THEN 1 ELSE 0

BargeMedia ==
    \E c \in CallIds, timestamp \in Timestamps :
        /\ TwilioMediaStep(c, timestamp, "a")
        /\ scenario' =
             CASE scenario = 1 /\ timestamp = 0 /\ session.aiProvider # NoRef
                  /\ isConnected(World, session.aiProvider) -> 2
               [] scenario = 3 /\ timestamp = 500 -> 4
               [] OTHER -> 0

BargeProviderOpen ==
    \E p \in ProviderIds :
        ProviderOpenStep(p) /\ scenario' = IF scenario = 1 THEN 1 ELSE 0

BargeProviderClosed ==
    \E p \in ProviderIds : ProviderSocketClosedStep(p) /\ scenario' = 0

BargeAudio ==
    \E p \in ProviderIds, itemId \in ItemIds \cup {""} :
        /\ ProviderAudioStep(p, "a", itemId)
        /\ scenario' = IF scenario = 2 /\ itemId = "I1" /\ p = session.aiProvider
                       THEN 3 ELSE 0

BargeSpeechStarted ==
    \E p \in ProviderIds :
        /\ ProviderSpeechStartedStep(p)
        /\ scenario' = IF scenario = 4 /\ p = session.aiProvider THEN 5 ELSE 0

BargeResponseDone ==
    \E p \in ProviderIds : ProviderRawMessageStep(p, "response.done") /\ scenario' = 0

NextBargeIn ==
    \/ BargeCallConnection
    \/ BargeSocketClosing
    \/ BargeSocketClosed
    \/ BargeStart
    \/ BargeMedia
    \/ BargeProviderOpen
    \/ BargeProviderClosed
    \/ BargeAudio
    \/ BargeSpeechStarted
    \/ BargeResponseDone

SpecBargeIn == InitProbe /\ [][NextBargeIn]_vars

\* ------------------------------------ specification SpecDispatch: dispatch
\* One call's Provider requesting function calls against the cart store.
DispatchCallConnection ==
    \E c \in 1..DispatchCalls :
        c \in CallIds /\ CallConnectionStep(c) /\ UNCHANGED scenario

DispatchSocketClosing ==
    \E c \in CallIds : TwilioSocketClosingStep(c) /\ UNCHANGED scenario

DispatchSocketClosed ==
    \E c \in CallIds : TwilioSocketClosedStep(c) /\ UNCHANGED scenario

DispatchStart ==
    \E c \in CallIds, streamSid \in StreamSids :
        TwilioStartStep(c, streamSid, TRUE, DispatchProviders) /\ UNCHANGED scenario

DispatchProviderOpen ==
    \E p \in ProviderIds : ProviderOpenStep(p) /\ UNCHANGED scenario

DispatchProviderClosed ==
    \E p \in ProviderIds : ProviderSocketClosedStep(p) /\ UNCHANGED scenario

DispatchFunctionCall ==
    \E p \in ProviderIds, name \in FnNames, rawArguments \in RawArguments,
       call_id \in FnCallIds :
        ProviderFunctionCallStep(p, name, rawArguments, call_id) /\ UNCHANGED scenario

NextDispatch ==
    \/ DispatchCallConnection
    \/ DispatchSocketClosing
    \/ DispatchSocketClosed
    \/ DispatchStart
    \/ DispatchProviderOpen
    \/ DispatchProviderClosed
    \/ DispatchFunctionCall

SpecDispatch == InitProbe /\ [][NextDispatch]_vars

\* ------------------------------------ specification SpecAsync: in flight
\* One call whose Provider requests add_to_cart and place_order; place_order
\* with a phone number stays in flight until its sendSms settles, in any order
\* with the other events.
AsyncCallConnection ==
    \E c \in 1..AsyncCalls : c \in CallIds /\ CallConnectionStep(c) /\ UNCHANGED scenario

AsyncSocketClosing ==
    \E c \in CallIds : TwilioSocketClosingStep(c) /\ UNCHANGED scenario

AsyncSocketClosed ==
    \E c \in CallIds : TwilioSocketClosedStep(c) /\ UNCHANGED scenario

AsyncStart ==
    \E c \in CallIds :
        TwilioStartStep(c, "S1", TRUE, AsyncProviders) /\ UNCHANGED scenario

AsyncProviderOpen ==
    \E p \in ProviderIds : ProviderOpenStep(p) /\ UNCHANGED scenario

AsyncProviderClosed ==
    \E p \in ProviderIds : ProviderSocketClosedStep(p) /\ UNCHANGED scenario

AsyncFunctionCall ==
    \E p \in ProviderIds, name \in AsyncFnNames, rawArguments \in AsyncRawArguments,
       call_id \in FnCallIds :
        ProviderFunctionCallStep(p, name, rawArguments, call_id) /\ UNCHANGED scenario

AsyncFunctionSettled ==
    \E i \in 1..Len(inflight) : FunctionCallSettledStep(i) /\ UNCHANGED scenario

NextAsync ==
    \/ AsyncCallConnection
    \/ AsyncSocketClosing
    \/ AsyncSocketClosed
    \/ AsyncStart
    \/ AsyncProviderOpen
    \/ AsyncProviderClosed
    \/ AsyncFunctionCall
    \/ AsyncFunctionSettled

SpecAsync == InitProbe /\ [][NextAsync]_vars

\* ------------------------------------ specification SpecCart: the cart
\* The cart handlers called with parsed arguments on the cart of the current
\* session: known and unknown menu items, absent, zero, positive and negative
\* quantities, held and unheld cart item ids.
MenuItemIds == {"pizza_margherita", "app_garlic_bread", "no_such_item"}

AddQuantities == {NoNum, 0, 2, 0 - 2}

AddSizes == {NoStr, "large", "huge"}

UpdateQuantities == {0 - 2, 0, 3}

\* the arrays of item requests add_to_cart is called with: one request, or an
\* unknown item followed by a known one
ItemRequests ==
    {<<[itemId |-> i, quantity |-> q, size |-> z]>> :
        i \in MenuItemIds, q \in AddQuantities, z \in AddSizes}
      \cup {<<[itemId |-> "no_such_item", quantity |-> NoNum, size |-> NoStr],
              [itemId |-> "app_garlic_bread", quantity |-> 2, size |-> NoStr]>>}

\* the cart item ids a request names: those the cart holds, and one it does not
CartItemKeys == HeldIds(<<carts[currentSessionId].items>>) \cup {0}

\* a cart handler called with parsed arguments: its result becomes the state
\* and its payload is returned
CartHandlerStep(name, cartItemId, quantity, requests, r) ==
    /\ Running
    /\ Commit([r.w EXCEPT !.out = <<EffD("event", name, cartItemId, NoStr, quantity,
                                         NoStr, NoStr),
                                    EffD("return", name, NoRef, NoStr, Len(requests),
                                         r.output, NoStr)>>])
    /\ ServerUnchanged

CartAdd ==
    \E requests \in ItemRequests :
        /\ Len(carts[currentSessionId].items) + Len(requests) <= CartItems
        /\ CartHandlerStep("add_to_cart", NoRef, NoNum, requests, addItems(World, requests))
        /\ UNCHANGED scenario

CartUpdate ==
    \E cartItemId \in CartItemKeys, quantity \in UpdateQuantities :
        /\ CartHandlerStep("update_cart_item", cartItemId, quantity, <<>>,
                           update_cart_item(World, cartItemId, quantity))
        /\ UNCHANGED scenario

CartRemove ==
    \E cartItemId \in CartItemKeys :
        /\ CartHandlerStep("remove_from_cart", cartItemId, NoNum, <<>>,
                           remove_from_cart(World, cartItemId))
        /\ UNCHANGED scenario

NextCart ==
    \/ CartAdd
    \/ CartUpdate
    \/ CartRemove

SpecCart == InitProbe /\ [][NextCart]_vars

\* ------------------------------------ specification SpecOrder: orders
\* handleFunctionCall called for add_to_cart and place_order under the default
\* session id and under stream ids, place_order with arguments that carry a
\* phone number, that carry none, or that are the JSON null. A call is one
\* step: place_order changes the stores before it awaits sendSms and only
\* returns after it.
OrderSetSessionId ==
    \E sessionId \in StreamSids :
        /\ Running
        /\ Commit([World EXCEPT !.currentSessionId = sessionId,
                                !.out = <<EffD("event", "setSessionId", NoRef, sessionId,
                                               NoNum, NoStr, NoStr)>>])
        /\ ServerUnchanged
        /\ UNCHANGED scenario

OrderFunctionCall ==
    \E name \in AsyncFnNames, rawArguments \in OrderRawArguments \cup {ItemsArgument} :
        /\ name = "add_to_cart" <=> rawArguments = ItemsArgument
        /\ name = "add_to_cart" => Len(carts[currentSessionId].items) < MaxCartItems
        /\ Len(orders) < MaxOrders
        /\ LET r == handleFunctionCall(
                      [World EXCEPT !.out = <<EffD("event", "functionCall", NoRef, NoStr,
                                                   NoNum, name, rawArguments)>>],
                      name, rawArguments)
           IN Commit([r.w EXCEPT !.out = Append(@, EffD("return", "handleFunctionCall",
                                                        NoRef, NoStr, NoNum, r.output,
                                                        NoStr))])
        /\ ServerUnchanged
        /\ UNCHANGED scenario

NextOrder ==
    \/ OrderSetSessionId
    \/ OrderFunctionCall

SpecOrder == InitProbe /\ [][NextOrder]_vars

\* -------------------------------------- specification SpecLegs: teardown
\* One call with an observer: every way a leg closes or fails, with the
\* handled event recorded.
LegsCallConnection ==
    \E c \in 1..LegsCalls : c \in CallIds /\ CallConnectionStep(c) /\ UNCHANGED scenario

LegsFrontendConnection ==
    \E f \in 1..LegsLogs : f \in LogIds /\ FrontendConnectionStep(f) /\ UNCHANGED scenario

LegsFrontendMessage ==
    \E f \in LogIds : FrontendMessageStep(f, "config") /\ UNCHANGED scenario

LegsFrontendSocketClosing ==
    \E f \in LogIds : FrontendSocketClosingStep(f) /\ UNCHANGED scenario

LegsFrontendSocketClosed ==
    \E f \in LogIds : FrontendSocketClosedStep(f) /\ UNCHANGED scenario

LegsSocketClosing ==
    \E c \in CallIds : TwilioSocketClosingStep(c) /\ UNCHANGED scenario

LegsSocketClosed ==
    \E c \in CallIds : TwilioSocketClosedStep(c) /\ UNCHANGED scenario

LegsCloseEnvelope ==
    \E c \in CallIds : TwilioCloseEnvelopeStep(c) /\ UNCHANGED scenario

LegsStart ==
    \E c \in CallIds :
        TwilioStartStep(c, "S1", TRUE, LegsProviders) /\ UNCHANGED scenario

LegsAudio ==
    \E p \in ProviderIds : ProviderAudioStep(p, "a", "I1") /\ UNCHANGED scenario

LegsProviderOpen ==
    \E p \in ProviderIds : ProviderOpenStep(p) /\ UNCHANGED scenario

LegsProviderConnectFailed ==
    \E p \in ProviderIds : ProviderConnectFailedStep(p) /\ UNCHANGED scenario

LegsProviderSocketError ==
    \E p \in ProviderIds : ProviderSocketErrorStep(p) /\ UNCHANGED scenario

LegsProviderSocketClosed ==
    \E p \in ProviderIds : ProviderSocketClosedStep(p) /\ UNCHANGED scenario

NextLegs ==
    \/ LegsCallConnection
    \/ LegsFrontendConnection
    \/ LegsFrontendMessage
    \/ LegsFrontendSocketClosing
    \/ LegsFrontendSocketClosed
    \/ LegsSocketClosing
    \/ LegsSocketClosed
    \/ LegsCloseEnvelope
    \/ LegsStart
    \/ LegsAudio
    \/ LegsProviderOpen
    \/ LegsProviderConnectFailed
    \/ LegsProviderSocketError
    \/ LegsProviderSocketClosed

SpecLegs == InitProbe /\ [][NextLegs]_vars

\* ------------------------------------------ specification SpecRelay: relay
\* One call's audio in both directions with distinguishable payloads, and
\* every way its Provider fails or closes.
RelayCallConnection ==
    \E c \in 1..RelayCalls : c \in CallIds /\ CallConnectionStep(c) /\ UNCHANGED scenario

RelaySocketClosing ==
    \E c \in CallIds : TwilioSocketClosingStep(c) /\ UNCHANGED scenario

RelaySocketClosed ==
    \E c \in CallIds : TwilioSocketClosedStep(c) /\ UNCHANGED scenario

RelayStart ==
    \E c \in CallIds :
        TwilioStartStep(c, "S1", TRUE, RelayProviders) /\ UNCHANGED scenario

RelayMedia ==
    \E c \in CallIds, timestamp \in RelayTimestamps, payload \in Payloads :
        TwilioMediaStep(c, timestamp, payload) /\ UNCHANGED scenario

RelayProviderOpen ==
    \E p \in ProviderIds : ProviderOpenStep(p) /\ UNCHANGED scenario

RelayProviderClosed ==
    \E p \in ProviderIds : ProviderSocketClosedStep(p) /\ UNCHANGED scenario

RelayProviderConnectFailed ==
    \E p \in ProviderIds : ProviderConnectFailedStep(p) /\ UNCHANGED scenario

RelayProviderSocketError ==
    \E p \in ProviderIds : ProviderSocketErrorStep(p) /\ UNCHANGED scenario

RelayAudio ==
    \E p \in ProviderIds, payload \in Payloads, itemId \in RelayItemIds \cup {""} :
        ProviderAudioStep(p, payload, itemId) /\ UNCHANGED scenario

NextRelay ==
    \/ RelayCallConnection
    \/ RelaySocketClosing
    \/ RelaySocketClosed
    \/ RelayStart
    \/ RelayMedia
    \/ RelayProviderOpen
    \/ RelayProviderClosed
    \/ RelayProviderConnectFailed
    \/ RelayProviderSocketError
    \/ RelayAudio

SpecRelay == InitProbe /\ [][NextRelay]_vars

\* ------------------------------------- specification SpecProtocol: messages
\* One call with observers: the observer's messages and replacement, and the
\* messages of each leg that are not well-formed envelopes.
ProtocolCallConnection ==
    \E c \in 1..ProtocolCalls :
        c \in CallIds /\ CallConnectionStep(c) /\ UNCHANGED scenario

ProtocolFrontendConnection ==
    \E f \in 1..ProtocolLogs :
        f \in LogIds /\ FrontendConnectionStep(f) /\ UNCHANGED scenario

ProtocolFrontendSocketClosing ==
    \E f \in LogIds : FrontendSocketClosingStep(f) /\ UNCHANGED scenario

ProtocolFrontendSocketClosed ==
    \E f \in LogIds : FrontendSocketClosedStep(f) /\ UNCHANGED scenario

ProtocolFrontendMessage ==
    \E f \in LogIds, config \in SessionConfigs :
        FrontendMessageStep(f, config) /\ UNCHANGED scenario

ProtocolFrontendMalformed ==
    \E f \in LogIds, data \in MalformedFrontendMessages :
        FrontendMalformedStep(f, data) /\ UNCHANGED scenario

ProtocolStart ==
    \E c \in CallIds :
        TwilioStartStep(c, "S1", TRUE, ProtocolProviders) /\ UNCHANGED scenario

ProtocolTwilioMalformed ==
    \E c \in CallIds, data \in MalformedTwilioMessages :
        TwilioMalformedStep(c, data) /\ UNCHANGED scenario

ProtocolProviderOpen ==
    \E p \in ProviderIds : ProviderOpenStep(p) /\ UNCHANGED scenario

ProtocolAudio ==
    \E p \in ProviderIds : ProviderAudioStep(p, "a", "I1") /\ UNCHANGED scenario

ProtocolProviderMalformed ==
    \E p \in ProviderIds, data \in MalformedProviderMessages :
        ProviderMalformedStep(p, data) /\ UNCHANGED scenario

NextProtocol ==
    \/ ProtocolCallConnection
    \/ ProtocolFrontendConnection
    \/ ProtocolFrontendSocketClosing
    \/ ProtocolFrontendSocketClosed
    \/ ProtocolFrontendMessage
    \/ ProtocolFrontendMalformed
    \/ ProtocolStart
    \/ ProtocolTwilioMalformed
    \/ ProtocolProviderOpen
    \/ ProtocolAudio
    \/ ProtocolProviderMalformed

SpecProtocol == InitProbe /\ [][NextProtocol]_vars

\* ------------------------------------ specification SpecModel: model ids
\* The admin surface selecting the current model by id.
SetCurrentModel ==
    \E modelId \in ModelIds : SetCurrentModelStep(modelId) /\ UNCHANGED scenario

NextModel == SetCurrentModel

SpecModel == InitProbe /\ [][NextModel]_vars

\* ------------------------------------ specification SpecHandover: next call
\* Two calls in succession: the Provider of the first requests add_to_cart
\* and place_order, and a place_order in flight settles in any order with the
\* first call's teardown and the second call's start.
HandoverCallConnection ==
    \E c \in 1..HandoverCalls :
        c \in CallIds /\ CallConnectionStep(c) /\ UNCHANGED scenario

HandoverSocketClosing ==
    \E c \in CallIds : TwilioSocketClosingStep(c) /\ UNCHANGED scenario

HandoverSocketClosed ==
    \E c \in CallIds : TwilioSocketClosedStep(c) /\ UNCHANGED scenario

HandoverStart ==
    \E c \in CallIds :
        /\ c = session.twilioConn
        /\ TwilioStartStep(c, "S1", TRUE, HandoverProviders)
        /\ UNCHANGED scenario

HandoverProviderOpen ==
    \E p \in ProviderIds : ProviderOpenStep(p) /\ UNCHANGED scenario

HandoverProviderClosed ==
    \E p \in ProviderIds : ProviderSocketClosedStep(p) /\ UNCHANGED scenario

HandoverFunctionCall ==
    \E p \in ProviderIds, name \in AsyncFnNames, rawArguments \in AsyncRawArguments :
        ProviderFunctionCallStep(p, name, rawArguments, "c1") /\ UNCHANGED scenario

HandoverFunctionSettled ==
    \E i \in 1..Len(inflight) : FunctionCallSettledStep(i) /\ UNCHANGED scenario

NextHandover ==
    \/ HandoverCallConnection
    \/ HandoverSocketClosing
    \/ HandoverSocketClosed
    \/ HandoverStart
    \/ HandoverProviderOpen
    \/ HandoverProviderClosed
    \/ HandoverFunctionCall
    \/ HandoverFunctionSettled

SpecHandover == InitProbe /\ [][NextHandover]_vars

\* ------------------------------------ specification SpecWire: Provider socket
\* One call and the Providers its start envelopes create: everything the
\* session manager writes to a Provider socket.
WireCallConnection ==
    \E c \in 1..WireCalls : c \in CallIds /\ CallConnectionStep(c) /\ UNCHANGED scenario

WireSocketClosing ==
    \E c \in CallIds : TwilioSocketClosingStep(c) /\ UNCHANGED scenario

WireSocketClosed ==
    \E c \in CallIds : TwilioSocketClosedStep(c) /\ UNCHANGED scenario

WireStart ==
    \E c \in CallIds :
        TwilioStartStep(c, "S1", TRUE, WireProviders) /\ UNCHANGED scenario

WireMedia ==
    \E c \in CallIds : TwilioMediaStep(c, 500, "a") /\ UNCHANGED scenario

WireProviderOpen ==
    \E p \in ProviderIds : ProviderOpenStep(p) /\ UNCHANGED scenario

WireProviderClosed ==
    \E p \in ProviderIds : ProviderSocketClosedStep(p) /\ UNCHANGED scenario

WireAudio ==
    \E p \in ProviderIds : ProviderAudioStep(p, "a", "I1") /\ UNCHANGED scenario

WireSpeechStarted ==
    \E p \in ProviderIds : ProviderSpeechStartedStep(p) /\ UNCHANGED scenario

WireFunctionCall ==
    \E p \in ProviderIds :
        ProviderFunctionCallStep(p, "get_cart", "null", "c1") /\ UNCHANGED scenario

NextWire ==
    \/ WireCallConnection
    \/ WireSocketClosing
    \/ WireSocketClosed
    \/ WireStart
    \/ WireMedia
    \/ WireProviderOpen
    \/ WireProviderClosed
    \/ WireAudio
    \/ WireSpeechStarted
    \/ WireFunctionCall

SpecWire == InitProbe /\ [][NextWire]_vars

\* ---------------------------------- specification SpecRecording: recordings
\* The status webhook of every recording, its download and its upload.
RecordingStatus == \E r \in RecordingIds : RecordingStatusStep(r) /\ UNCHANGED scenario

DownloadResponse ==
    \E r \in RecordingIds, statusCode \in StatusCodes :
        DownloadResponseStep(r, statusCode) /\ UNCHANGED scenario

DownloadError == \E r \in RecordingIds : DownloadErrorStep(r) /\ UNCHANGED scenario

FileFinish == \E r \in RecordingIds : FileFinishStep(r) /\ UNCHANGED scenario

UploadSettled ==
    \E r \in RecordingIds, result \in DriveFileIds, unlinkThrows \in BOOLEAN :
        UploadSettledStep(r, result, unlinkThrows) /\ UNCHANGED scenario

NextRecording ==
    \/ RecordingStatus
    \/ DownloadResponse
    \/ DownloadError
    \/ FileFinish
    \/ UploadSettled

SpecRecording == InitRecording /\ [][NextRecording]_vars

\* ============================================================== properties
\* a Provider instance that is connecting or connected: created, close() not
\* called on it, and its socket neither failed nor closed
Alive(p) == prov[p].sock \in {"CONNECTING", "OPEN"}

\* the state of the bridge a handler leaves, without the record of its output
StateOf(w) == <<w.session, w.conn, w.logs, w.prov>>

\* C1: at most one Provider instance is connecting or connected at any time.
C1_SingleAliveProvider ==
    Cardinality({p \in ProviderIds : Alive(p)}) <= 1

\* C2: when a telephony connection is attached, the Session's telephony leg
\* is afterwards the new connection, still open, and a previous leg that was
\* open when the connection arrived has been closed.
C2_PreviousLegClosed ==
    [][\A c \in CallIds :
         (conn[c] = "NEW" /\ conn'[c] # "NEW")
         => /\ session'.twilioConn = c
            /\ conn'[c] = "OPEN"
            /\ isOpen(conn, session.twilioConn)
                 => conn'[session.twilioConn] = "CLOSING"
            /\ \A d \in CallIds \ {c} : conn'[d] # "OPEN"]_vars

\* a second telephony connection replaced the first while the first was open
C2_Witness ==
    /\ session.twilioConn = 2
    /\ conn[2] = "OPEN"
    /\ conn[1] = "CLOSING"
    /\ session.streamSid = NoStr

\* the entries of a handler's record that are calls of the Provider method op
Calls(seq, op) == {i \in 1..Len(seq) : seq[i].ch = "call" /\ seq[i].op = op}

\* the entries of a handler's record that are frames op written to a telephony socket
Frames(seq, op) == {i \in 1..Len(seq) : seq[i].ch = "twilio" /\ seq[i].op = op}

\* the step handles the event op
Handles(seq, op) == Len(seq) > 0 /\ seq[1].ch = "event" /\ seq[1].op = op

\* Speaking: an utterance is in flight
Speaking == session.responseStartTimestamp # NoNum

\* C3: every truncate call of a barge-in carries max(0, latest - start) of the
\* timestamps the Session holds when speechStarted is handled: 450 for start
\* 1000 and latest 1450, 0 for start 1000 and latest 900, never a negative value.
C3_ElapsedClamped ==
    [][Handles(out', "speechStarted") =>
         \A i \in Calls(out', "truncate") :
            LET latest == session.latestMediaTimestamp
                start == session.responseStartTimestamp
            IN /\ out'[i].num >= 0
               /\ latest >= start => out'[i].num = latest - start
               /\ latest < start => out'[i].num = 0
               /\ (start = 1000 /\ latest = 1450) => out'[i].num = 450
               /\ (start = 1000 /\ latest = 900) => out'[i].num = 0]_vars

\* a barge-in at media time 1450 truncated at 450: the utterance began at 1000
C3_Witness ==
    /\ Handles(out, "speechStarted")
    /\ session.latestMediaTimestamp = 1450
    /\ \E i \in Calls(out, "truncate") : out[i].num = 450

\* C4: a speechStarted event while Speaking with a connected Provider makes
\* exactly one truncate(lastAssistantItem, elapsed) call and no interrupt call on
\* a Provider with truncate, and exactly one interrupt call and no truncate call
\* on a Provider without it.
C4_OneInterruptOrTruncate ==
    [][(/\ Handles(out', "speechStarted")
        /\ Speaking
        /\ session.aiProvider # NoRef
        /\ out'[1].id = session.aiProvider
        /\ isConnected(World, session.aiProvider))
       => IF prov[session.aiProvider].truncate
          THEN /\ Cardinality(Calls(out', "truncate")) = 1
               /\ Calls(out', "interrupt") = {}
               /\ \A i \in Calls(out', "truncate") :
                     /\ out'[i].id = session.aiProvider
                     /\ out'[i].str = session.lastAssistantItem
          ELSE /\ Cardinality(Calls(out', "interrupt")) = 1
               /\ Calls(out', "truncate") = {}]_vars

\* C5: in every Speaking state, with or without lastAssistantItem, handling a
\* speechStarted event sends exactly one clear frame to the telephony leg and
\* leaves lastAssistantItem and responseStartTimestamp absent.
C5_ClearAndIdle ==
    [][(Handles(out', "speechStarted") /\ Speaking)
       => /\ Cardinality(Frames(out', "clear")) = 1
          /\ session'.lastAssistantItem = NoStr
          /\ session'.responseStartTimestamp = NoNum]_vars

\* C6: after start{S1}, media{0} and audio{I1} with a connected Provider the
\* utterance began at 0; after media{500} and speechStarted the Provider got
\* exactly truncate(I1, 500) (interrupt() if it has no truncate), the telephony
\* leg got one clear frame, and both timing fields are absent.
C6_Scenario ==
    /\ scenario = 3 => /\ session.responseStartTimestamp = 0
                       /\ session.lastAssistantItem = "I1"
    /\ scenario = 5 =>
         LET p == session.aiProvider
             calls == {i \in 1..Len(out) : out[i].ch = "call"}
         IN /\ Cardinality(calls) = 1
            /\ \A i \in calls :
                  /\ out[i].id = p
                  /\ IF prov[p].truncate
                     THEN out[i].op = "truncate" /\ out[i].str = "I1" /\ out[i].num = 500
                     ELSE out[i].op = "interrupt"
            /\ Cardinality(Frames(out, "clear")) = 1
            /\ \A i \in Frames(out, "clear") : out[i].id = session.twilioConn
            /\ session.responseStartTimestamp = NoNum
            /\ session.lastAssistantItem = NoStr

\* the five events of the scenario happened in order, on a Provider with truncate
C6_Witness ==
    /\ scenario = 5
    /\ prov[session.aiProvider].truncate
    /\ session.latestMediaTimestamp = 500

\* C7: teardown is idempotent: running the telephony-close handler,
\* cleanupAIProvider or closeAllConnections a second time leaves the Session
\* and every socket exactly as the first run left them.
C7_TeardownIdempotent ==
    /\ StateOf(onTwilioClose(onTwilioClose(World))) = StateOf(onTwilioClose(World))
    /\ StateOf(cleanupAIProvider(cleanupAIProvider(World))) = StateOf(cleanupAIProvider(World))
    /\ StateOf(closeAllConnections(closeAllConnections(World)))
         = StateOf(closeAllConnections(World))

\* the entries of a handler's record on channel ch
Entries(seq, ch) == {i \in 1..Len(seq) : seq[i].ch = ch}

\* the record shows output handed to Provider p for call_id: one
\* sendFunctionResponse call, written to the socket when p is connected
Delivered(seq, w, p, call_id, output) ==
    /\ Cardinality(Calls(seq, "sendFunctionResponse")) = 1
    /\ \A i \in Calls(seq, "sendFunctionResponse") :
          seq[i].id = p /\ seq[i].str = call_id /\ seq[i].data = output
    /\ (w.prov[p].connected /\ w.prov[p].ws /\ w.prov[p].sock = "OPEN")
         => \E i \in Entries(seq, "provider") :
               /\ seq[i].op = "conversation.item.create"
               /\ seq[i].id = p /\ seq[i].str = call_id /\ seq[i].data = output

\* C8: a function call whose name has no registered handler does not reject
\* the dispatcher: a structured error payload naming the function is returned
\* and, with a Provider present, handed to it for the call's call_id.
C8_UnknownNameAnswered ==
    (Handles(out, "functionCall") /\ out[1].data \notin RegisteredFunctions)
    => /\ Entries(out, "reject") = {}
       /\ Cardinality(Entries(out, "return")) = 1
       /\ session.aiProvider # NoRef
            => \E i \in Calls(out, "sendFunctionResponse") : out[i].str = out[1].str

\* C9: a call of a registered function whose arguments do not parse returns
\* the invalid-arguments error payload, rejects nothing, invokes no handler and
\* leaves the Session, the carts and the active session key unchanged.
C9_UnparseableArguments ==
    [][(/\ Handles(out', "functionCall")
        /\ out'[1].data \in RegisteredFunctions
        /\ out'[1].arg = "{not json")
       => /\ Entries(out', "reject") = {}
          /\ Entries(out', "handler") = {}
          /\ Cardinality(Entries(out', "return")) = 1
          /\ \A i \in Entries(out', "return") : out'[i].data = InvalidJsonPayload
          /\ session.aiProvider # NoRef
               => Delivered(out', World, session.aiProvider, out'[1].str,
                            InvalidJsonPayload)
          /\ session' = session
          /\ carts' = carts
          /\ currentSessionId' = currentSessionId]_vars

\* add_to_cart was called with unparseable arguments and the error payload
\* went to the connected Provider
C9_Witness ==
    /\ Handles(out, "functionCall")
    /\ out[1].data = "add_to_cart"
    /\ out[1].arg = "{not json"
    /\ session.aiProvider # NoRef
    /\ \E i \in Entries(out, "provider") : out[i].data = InvalidJsonPayload

\* C10: when a registered handler fails, the dispatcher returns the
\* handler-error payload instead of rejecting; with a Provider present the
\* payload is handed to it for the call's call_id; no socket of any leg
\* changes state and the Session record is unchanged.
C10_HandlerFailureCaught ==
    [][(/\ Handles(out', "functionCall")
        /\ out'[1].data \in RegisteredFunctions
        /\ Entries(out', "handler") # {}
        /\ handler(World, out'[1].data, out'[1].arg).failed)
       => /\ Entries(out', "reject") = {}
          /\ Cardinality(Entries(out', "return")) = 1
          /\ \A i \in Entries(out', "return") :
                out'[i].data = "{error:Error running function " \o out'[1].data \o "}"
          /\ session.aiProvider # NoRef
               => Delivered(out', World, session.aiProvider, out'[1].str,
                            "{error:Error running function " \o out'[1].data \o "}")
          /\ session' = session
          /\ conn' = conn
          /\ logs' = logs
          /\ prov' = prov]_vars

\* add_to_cart failed on arguments without items and the error payload went
\* to the connected Provider
C10_Witness ==
    /\ Handles(out, "functionCall")
    /\ out[1].data = "add_to_cart"
    /\ out[1].arg = "null"
    /\ session.aiProvider # NoRef
    /\ \E i \in Entries(out, "provider") :
          out[i].data = "{error:Error running function add_to_cart}"

\* C11: every function response the Provider is handed or sent carries the
\* call_id of the call being answered, also when calls in flight settle in
\* another order than they were issued; a step answers at most once, and a
\* call answered after being in flight is in flight no longer.
C11_ResponseCarriesCallId ==
    [][/\ Calls(out', "sendFunctionResponse") # {}
          => Handles(out', "functionCall") \/ Handles(out', "settled")
       /\ Cardinality(Calls(out', "sendFunctionResponse")) <= 1
       /\ \A i \in Calls(out', "sendFunctionResponse") : out'[i].str = out'[1].str
       /\ \A i \in Entries(out', "provider") :
             out'[i].op = "conversation.item.create" => out'[i].str = out'[1].str
       /\ Handles(out', "settled")
            => /\ \E j \in 1..Len(inflight) : inflight[j].call_id = out'[1].str
               /\ \A j \in 1..Len(inflight') : inflight'[j].call_id # out'[1].str
               /\ Len(inflight') = Len(inflight) - 1
       /\ (Handles(out', "functionCall") /\ Len(inflight') > Len(inflight))
            => Calls(out', "sendFunctionResponse") = {}]_vars

\* the call issued second settled and was answered while the call issued
\* first is still in flight
C11_Witness ==
    /\ Handles(out, "settled")
    /\ out[1].num = 2
    /\ Len(inflight) = 1
    /\ inflight[1].call_id # out[1].str
    /\ \E i \in Entries(out, "provider") :
          out[i].op = "conversation.item.create" /\ out[i].str = out[1].str

\* C12: within a started call a telephony media frame never moves
\* latestMediaTimestamp backward.
C12_MediaClockMonotonic ==
    [][(Handles(out', "media") /\ Truthy(session.streamSid))
       => session'.latestMediaTimestamp >= session.latestMediaTimestamp]_vars

\* C13: responseStartTimestamp is absent once the utterance has ended: the
\* Provider's response.done leaves it absent, so the next utterance's first
\* audio event records its own start.
C13_StartClearedAtUtteranceEnd ==
    [][(Handles(out', "rawMessage") /\ out'[1].str = "response.done")
       => session'.responseStartTimestamp = NoNum]_vars

\* C14: lastAssistantItem is present only if responseStartTimestamp is, and a
\* truncate call is made only from a state where responseStartTimestamp is
\* present, with the item the Session holds.
C14_ItemOnlyWhileSpeaking ==
    [][/\ Truthy(session'.lastAssistantItem) => session'.responseStartTimestamp # NoNum
       /\ \A i \in Calls(out', "truncate") :
             /\ session.responseStartTimestamp # NoNum
             /\ out'[i].str = session.lastAssistantItem]_vars

\* an audio event with item id was relayed at media time 1000: the item and
\* the start of the utterance are both present
C14_Witness ==
    /\ Handles(out, "audio")
    /\ session.lastAssistantItem = "I1"
    /\ session.responseStartTimestamp = 1000
    /\ session.latestMediaTimestamp = 1000

\* C15: after every handler, a Session without telephony leg, Provider and
\* observer leg is empty: stream id, timing fields, stored configuration and
\* API keys are all absent.
C15_EmptyWhenAllAbsent ==
    (session.twilioConn = NoRef /\ session.aiProvider = NoRef /\ session.frontendConn = NoRef)
    => /\ session.streamSid = NoStr
       /\ session.latestMediaTimestamp = NoNum
       /\ session.responseStartTimestamp = NoNum
       /\ session.lastAssistantItem = NoStr
       /\ session.saved_config = NoStr
       /\ session.apiKeys = NoStr

\* C16: when the Session's telephony leg closes, by its socket's close event
\* or by a close envelope, the Provider is closed and its reference cleared,
\* the timing fields are cleared, and an attached observer stays attached
\* with its socket state and the stored configuration unchanged.
C16_TelephonyCloseKeepsObserver ==
    [][((Handles(out', "twilio:close") \/ Handles(out', "close"))
        /\ out'[1].id = session.twilioConn)
       => /\ session'.aiProvider = NoRef
          /\ session.aiProvider # NoRef
               => /\ ~prov'[session.aiProvider].connected
                  /\ prov'[session.aiProvider].sock \notin {"CONNECTING", "OPEN"}
          /\ session'.latestMediaTimestamp = NoNum
          /\ session'.responseStartTimestamp = NoNum
          /\ session'.lastAssistantItem = NoStr
          /\ session.frontendConn # NoRef
               => /\ session'.frontendConn = session.frontendConn
                  /\ logs' = logs
                  /\ session'.saved_config = session.saved_config]_vars

\* C17: when a Provider socket reports an error or closes while a telephony
\* leg is attached, the Session changes in its Provider reference only, and
\* no telephony or observer socket changes state.
C17_ProviderCloseClearsReferenceOnly ==
    [][(/\ \/ Handles(out', "provider:error")
           \/ Handles(out', "provider:close")
           \/ Handles(out', "provider:connectFailed")
        /\ session.twilioConn # NoRef)
       => /\ session' = [session EXCEPT !.aiProvider = NoRef]
          /\ conn' = conn
          /\ logs' = logs]_vars

\* the connected Provider of a call with observer, stored configuration and
\* an utterance in flight reported an error: all but the reference is kept
C17_Witness ==
    /\ Handles(out, "provider:error")
    /\ session.aiProvider = NoRef
    /\ isOpen(conn, session.twilioConn)
    /\ isOpen(logs, session.frontendConn)
    /\ session.streamSid = "S1"
    /\ session.responseStartTimestamp # NoNum
    /\ session.saved_config # NoStr

\* C18: while the Session's Provider is connecting or connected, no event, in
\* particular no telephony start, creates a Provider or makes another
\* Provider the Session's.
C18_NoSecondProvider ==
    [][(session.aiProvider # NoRef
        /\ prov[session.aiProvider].sock \in {"CONNECTING", "OPEN"})
       => /\ \A p \in ProviderIds : prov[p].sock = "NEW" => prov'[p].sock = "NEW"
          /\ session'.aiProvider \in {session.aiProvider, NoRef}]_vars

\* C19: a telephony start with stream id S makes S the Session's stream id
\* and the handlers' session key, leaves no cart and no order for S, and
\* resets the timing fields to (0, absent, absent).
C19_StartResetsStores ==
    [][Handles(out', "start")
       => /\ session'.streamSid = out'[1].str
          /\ currentSessionId' = out'[1].str
          /\ ~carts'[out'[1].str].exists
          /\ \A i \in 1..Len(orders') : orders'[i].sessionId # out'[1].str
          /\ session'.latestMediaTimestamp = 0
          /\ session'.responseStartTimestamp = NoNum
          /\ session'.lastAssistantItem = NoStr]_vars

\* C20: a call in flight stays in flight when the telephony leg closes; when
\* it settles with no Provider in the Session, the dispatcher returns, no
\* Provider method is called, nothing is written to a socket, nothing is
\* rejected, and the Session and every socket are unchanged.
C20_LateResultDropped ==
    [][/\ (Handles(out', "twilio:closing") \/ Handles(out', "twilio:close"))
            => inflight' = inflight
       /\ (Handles(out', "settled") /\ session.aiProvider = NoRef)
            => /\ Cardinality(Entries(out', "return")) = 1
               /\ Entries(out', "call") = {}
               /\ Entries(out', "provider") = {}
               /\ Entries(out', "twilio") = {}
               /\ Entries(out', "reject") = {}
               /\ session' = session
               /\ conn' = conn
               /\ prov' = prov]_vars

\* a place_order call settled with the telephony socket closed and the
\* Session emptied
C20_Witness ==
    /\ Handles(out, "settled")
    /\ Entries(out, "return") # {}
    /\ session = EmptySession
    /\ \E c \in CallIds : conn[c] = "CLOSED"
    /\ \E i \in 1..Len(orders) : orders[i].sessionId = "S1"

\* C21: a telephony media frame is forwarded during its own handling or never:
\* with a connected Provider in the Session the handler makes one sendAudio
\* call on it carrying the frame's payload (written once to its open socket),
\* otherwise it calls and writes nothing and raises nothing; in both cases
\* latestMediaTimestamp becomes the frame's timestamp and nothing else of the
\* Session changes. No other event calls sendAudio or writes audio to a Provider.
C21_MediaForwardedOnceOrDropped ==
    [][/\ (\/ Calls(out', "sendAudio") # {}
           \/ \E i \in Entries(out', "provider") : out'[i].op = "input_audio_buffer.append")
          => Handles(out', "media")
       /\ Handles(out', "media")
          => LET p == session.aiProvider
             IN /\ session' = [session EXCEPT !.latestMediaTimestamp = out'[1].num]
                /\ Entries(out', "throw") = {}
                /\ Entries(out', "twilio") = {}
                /\ IF p # NoRef /\ prov[p].connected
                   THEN /\ Cardinality(Entries(out', "call")) = 1
                        /\ \A i \in Entries(out', "call") :
                              /\ out'[i].op = "sendAudio"
                              /\ out'[i].id = p
                              /\ out'[i].str = out'[1].str
                        /\ Cardinality(Entries(out', "provider")) =
                              IF prov[p].sock = "OPEN" THEN 1 ELSE 0
                        /\ \A i \in Entries(out', "provider") :
                              /\ out'[i].op = "input_audio_buffer.append"
                              /\ out'[i].id = p
                              /\ out'[i].str = out'[1].str
                   ELSE /\ Entries(out', "call") = {}
                        /\ Entries(out', "provider") = {}]_vars

\* a media frame with payload b and timestamp 500 arrived while the Provider
\* was still connecting: nothing was called or written, the timestamp is stored
C21_Witness ==
    /\ Handles(out, "media")
    /\ out[1].str = "b"
    /\ Len(out) = 1
    /\ session.aiProvider # NoRef
    /\ prov[session.aiProvider].sock = "CONNECTING"
    /\ session.latestMediaTimestamp = 500

\* the record holds exactly a media frame with payload and then a mark
\* frame, both written to telephony socket c and tagged streamSid
MediaThenMark(seq, c, streamSid, payload) ==
    /\ Cardinality(Entries(seq, "twilio")) = 2
    /\ \E i, j \in Entries(seq, "twilio") :
          /\ i < j
          /\ seq[i].op = "media" /\ seq[i].str = payload
          /\ seq[j].op = "mark"
          /\ \A k \in {i, j} : seq[k].id = c /\ seq[k].data = streamSid

\* C22 as stated: an audio event handled with telephony leg and stream id
\* present writes exactly one media frame with its payload and then one mark
\* frame, both tagged with the stream id; with either absent nothing is
\* written and the Session is unchanged.
C22_AudioRelayedWhilePresent ==
    [][Handles(out', "audio")
       => IF session.twilioConn # NoRef /\ Truthy(session.streamSid)
          THEN MediaThenMark(out', session.twilioConn, session.streamSid, out'[1].data)
          ELSE Entries(out', "twilio") = {} /\ session' = session]_vars

\* C22, amended: the two frames are written when the telephony leg's socket
\* is open; with the leg present but its socket no longer open nothing is
\* written; with leg or stream id absent nothing is written and the Session
\* is unchanged. No other event writes a media or mark frame.
C22_AudioRelayedWhileOpen ==
    [][/\ (Frames(out', "media") # {} \/ Frames(out', "mark") # {})
          => Handles(out', "audio")
       /\ Handles(out', "audio")
          => IF session.twilioConn # NoRef /\ Truthy(session.streamSid)
             THEN IF conn[session.twilioConn] = "OPEN"
                  THEN MediaThenMark(out', session.twilioConn, session.streamSid,
                                     out'[1].data)
                  ELSE Entries(out', "twilio") = {}
             ELSE Entries(out', "twilio") = {} /\ session' = session]_vars

\* an audio event with payload b was relayed to the open telephony leg of
\* stream S1 as a media frame and a mark frame
C22_Witness ==
    /\ Handles(out, "audio")
    /\ out[1].data = "b"
    /\ isOpen(conn, session.twilioConn)
    /\ MediaThenMark(out, session.twilioConn, "S1", "b")

\* C23: a message on the telephony, observer or Provider leg that is not a
\* well-formed envelope is dropped silently: no error leaves the message
\* handler, nothing is called or written, and the Session is unchanged.
C23_MalformedDropped ==
    [][(\/ Handles(out', "twilio:malformed")
        \/ Handles(out', "logs:malformed")
        \/ Handles(out', "provider:malformed"))
       => /\ Entries(out', "throw") = {}
          /\ Len(out') = 1
          /\ session' = session]_vars

\* C24: when no Provider can be established for a call, the Session has no
\* Provider and the telephony leg stays attached with its socket as it was: a
\* start handled with the API key missing (or a current model of an
\* unsupported provider) creates no Provider, and a failed connect of the
\* Session's Provider clears the reference and leaves that socket closed.
C24_ProviderFailureKeepsCall ==
    [][/\ (/\ Handles(out', "start")
           /\ session.twilioConn # NoRef
           /\ session.apiKeys = "" \/ unsupported(currentModelConfig))
          => /\ session'.aiProvider = NoRef
             /\ prov' = prov
             /\ session'.twilioConn = session.twilioConn
             /\ conn' = conn
       /\ (/\ Handles(out', "provider:connectFailed")
           /\ session.twilioConn # NoRef)
          => /\ session'.aiProvider = NoRef
             /\ prov'[out'[1].id].sock = "CLOSED"
             /\ \A p \in ProviderIds : prov[p].sock = "NEW" => prov'[p].sock = "NEW"
             /\ session'.twilioConn = session.twilioConn
             /\ conn' = conn]_vars

\* the connect of the call's Provider failed: the Session has no Provider
\* and the telephony leg of stream S1 is still attached and open
C24_Witness ==
    /\ Handles(out, "provider:connectFailed")
    /\ session.aiProvider = NoRef
    /\ prov[out[1].id].sock = "CLOSED"
    /\ isOpen(conn, session.twilioConn)
    /\ session.streamSid = "S1"

\* C25: a Provider is created, and a Provider becomes the Session's, only
\* while a telephony start is handled: no Provider event (open, failure,
\* error, close, audio, malformed message) and no media frame does it.
C25_NoReconnectWithoutStart ==
    [][(\/ \E p \in ProviderIds : prov[p].sock = "NEW" /\ prov'[p].sock # "NEW"
        \/ session'.aiProvider \notin {session.aiProvider, NoRef})
       => Handles(out', "start")]_vars

\* the call's Provider is gone (failed, errored or closed) and a media frame
\* was handled since on the open telephony leg: the Session has no Provider
\* and no other Provider was created
C25_Witness ==
    /\ Handles(out, "media")
    /\ isOpen(conn, session.twilioConn)
    /\ session.streamSid = "S1"
    /\ session.aiProvider = NoRef
    /\ prov[1].sock = "CLOSED"
    /\ \A p \in ProviderIds \ {1} : prov[p].sock = "NEW"

C27_PriorObserverClosed ==
    [][\A f \in LogIds :
         (logs[f] = "NEW" /\ logs'[f] # "NEW")
         => /\ session' = [session EXCEPT !.frontendConn = f]
            /\ logs'[f] = "OPEN"
            /\ isOpen(logs, session.frontendConn)
                 => logs'[session.frontendConn] = "CLOSING"
            /\ \A g \in LogIds \ {f} : logs'[g] # "OPEN"
            /\ conn' = conn
            /\ prov' = prov
            /\ Len(out') = 1]_vars

\* a second observer connection replaced the first, which was open, during a
\* started call with a connected Provider
C27_Witness ==
    /\ Handles(out, "connection:logs")
    /\ session.frontendConn = 2
    /\ logs[2] = "OPEN"
    /\ logs[1] = "CLOSING"
    /\ isOpen(conn, session.twilioConn)
    /\ session.aiProvider # NoRef
    /\ prov[session.aiProvider].connected

\* the Provider methods that send, called on Provider p, write nothing to a
\* socket, throw nothing and change no state
SendsNothing(w, p) ==
    \A r \in {sendAudio(w, p, "a"), sendFunctionResponse(w, p, "c1", "{}"),
              truncate(w, p, "I1", 0)} :
       /\ Entries(r.out, "provider") = {}
       /\ Entries(r.out, "throw") = {}
       /\ StateOf(r) = StateOf(w)

\* C28: in every state and for every Provider, whatever its connection
\* state, close() leaves it not connected, without socket and with no
\* connecting or open socket, and throws nothing; a second close() changes
\* nothing more; after one or two calls sendAudio, sendFunctionResponse and
\* truncate send nothing.
C28_CloseIdempotent ==
    \A p \in ProviderIds :
       LET w1 == close(World, p)
           w2 == close(w1, p)
       IN /\ ~w1.prov[p].connected
          /\ ~w1.prov[p].ws
          /\ w1.prov[p].sock \notin {"CONNECTING", "OPEN"}
          /\ \A q \in ProviderIds \ {p} : w1.prov[q] = prov[q]
          /\ StateOf(w2) = StateOf(w1)
          /\ Entries(w2.out, "throw") = {}
          /\ SendsNothing(w1, p)
          /\ SendsNothing(w2, p)

\* close() was called on a connected Provider (its socket is closing) and on
\* a Provider whose socket had already closed
C28_Witness ==
    /\ prov[1].sock = "CLOSED"
    /\ prov[2].sock = "CLOSING"
    /\ ~prov[2].ws
    /\ ~prov[2].connected
    /\ session.aiProvider = NoRef

\* the id is provider:model of some available model
NamesAvailableModel(id) ==
    \E i \in 1..Len(AVAILABLE_MODELS) : id = getModelId(AVAILABLE_MODELS[i])

\* C29: getModelById(getModelId(m)) is m for every available model m, in
\* particular for openai:gpt-4o-realtime-preview; setCurrentModel with the id
\* of an available model returns true and makes it the current model, and with
\* an id that is provider:model of no available model it returns false and
\* leaves the current model unchanged, getModelById returning null.
C29_ModelLookup ==
    [][/\ \A i \in 1..Len(AVAILABLE_MODELS) :
             getModelById(getModelId(AVAILABLE_MODELS[i])) = AVAILABLE_MODELS[i]
       /\ getModelById(<<"openai", ":", "gpt-4o-realtime-preview">>) = AVAILABLE_MODELS[3]
       /\ Handles(out', "setCurrentModel")
          => IF NamesAvailableModel(out'[1].arg)
             THEN /\ out'[2].data = "true"
                  /\ getModelId(currentModelConfig') = out'[1].arg
             ELSE /\ getModelById(out'[1].arg) = NoModel
                  /\ out'[2].data = "false"
                  /\ currentModelConfig' = currentModelConfig]_vars

\* C30: every recording whose download completed still has its local WAV
\* file, while its upload to Google Drive is pending and after it succeeded
\* or failed.
Downloaded(rec) == rec.stage \in {"uploading", "resolved"}

C30_LocalCopyKept ==
    \A r \in RecordingIds : Downloaded(recordings[r]) => recordings[r].file

\* C31: while Speaking, a Provider audio event leaves responseStartTimestamp
\* as it is; one that carries an item id makes that id lastAssistantItem, one
\* without item id leaves lastAssistantItem as it is; nothing else of the
\* Session changes.
C31_FurtherAudioKeepsStart ==
    [][(Handles(out', "audio") /\ Speaking)
       => session' = [session EXCEPT !.lastAssistantItem =
                                         IF Truthy(out'[1].str) THEN out'[1].str ELSE @]]_vars

\* an utterance that began at media time 0 got, at media time 500, a further
\* audio event that carries item I2
C31_Witness ==
    /\ Handles(out, "audio")
    /\ out[1].str = "I2"
    /\ session.lastAssistantItem = "I2"
    /\ session.responseStartTimestamp = 0
    /\ session.latestMediaTimestamp = 500

\* C32: the first message a Provider socket carries is session.update and it
\* carries it once: session.update is written only while the socket's open
\* event is handled, to that socket, as its first message, before 'open' is
\* emitted; audio appends, function outputs and truncations come after it.
C32_SessionUpdateFirst ==
    [][/\ \A p \in ProviderIds :
             /\ wire'[p].first \in {NoStr, "session.update"}
             /\ wire'[p].updates <= 1
       /\ \A i \in Entries(out', "provider") :
             out'[i].op = "session.update"
             => /\ Handles(out', "provider:open")
                /\ out'[i].id = out'[1].id
                /\ wire[out'[i].id] = NoWire
       /\ Handles(out', "provider:open")
          => \E i, j \in 1..Len(out') :
                /\ i < j
                /\ out'[i].ch = "provider" /\ out'[i].op = "session.update"
                /\ out'[i].id = out'[1].id
                /\ out'[j].ch = "emit" /\ out'[j].op = "open"
                /\ \A k \in 1..(i - 1) : out'[k].ch # "provider"]_vars

\* the second Provider of a call, whose socket carried session.update first
\* and once, gets a truncation
C32_Witness ==
    /\ Handles(out, "speechStarted")
    /\ \E i \in Entries(out, "provider") :
          out[i].op = "conversation.item.truncate" /\ out[i].id = 2
    /\ wire[2] = [first |-> "session.update", updates |-> 1]
    /\ wire[1] = [first |-> "session.update", updates |-> 1]

\* C33: the close event of a telephony socket that is no longer the Session's
\* leg, handled while the leg that replaced it is open, leaves the Session,
\* the replacing leg's socket and every Provider as they are.
C33_StaleTelephonyCloseIgnored ==
    [][\A a \in CallIds :
         (/\ conn[a] = "CLOSING" /\ conn'[a] = "CLOSED"
          /\ session.twilioConn \notin {NoRef, a}
          /\ conn[session.twilioConn] = "OPEN")
         => /\ session' = session
            /\ conn'[session.twilioConn] = "OPEN"
            /\ prov' = prov]_vars

\* C34: the close event of an observer socket that is no longer the Session's
\* observer leg, handled while the observer that replaced it is open, leaves
\* the replacing observer attached and its socket open.
C34_StaleObserverCloseIgnored ==
    [][\A a \in LogIds :
         (/\ logs[a] = "CLOSING" /\ logs'[a] = "CLOSED"
          /\ session.frontendConn \notin {NoRef, a}
          /\ logs[session.frontendConn] = "OPEN")
         => /\ session'.frontendConn = session.frontendConn
            /\ logs'[session.frontendConn] = "OPEN"]_vars

\* C35: the error or close event of the socket of a Provider that is not the
\* Session's Provider leaves the Session's Provider installed and untouched.
C35_StaleProviderEventIgnored ==
    [][\A p \in ProviderIds :
         (/\ session.aiProvider \notin {NoRef, p}
          /\ prov[p].sock \in {"OPEN", "CLOSING"}
          /\ prov'[p].sock # prov[p].sock)
         => /\ session'.aiProvider = session.aiProvider
            /\ prov'[session.aiProvider] = prov[session.aiProvider]]_vars

\* C36: the output of a function call is handed to no Provider but the one
\* that requested it, at once or when a call in flight settles.
C36_ResultToRequesterOnly ==
    [][(Handles(out', "functionCall") \/ Handles(out', "settled"))
       => \A i \in Calls(out', "sendFunctionResponse") : out'[i].id = out'[1].id]_vars

\* C37: once the close event of a telephony socket has been handled, no
\* Provider instance is connecting or connected.
C37_NoProviderOutlivesCall ==
    [][\A c \in CallIds :
         (conn[c] = "CLOSING" /\ conn'[c] = "CLOSED")
         => \A p \in ProviderIds :
               /\ prov'[p].sock \notin {"CONNECTING", "OPEN"}
               /\ ~prov'[p].connected]_vars

\* C38: an audio event for item I that is handled next after the barge-in
\* that truncated I and sent the clear frame writes no media frame to the
\* telephony leg and does not leave the Session Speaking with item I.
C38_TruncatedItemStaysSilent ==
    [][\A i \in Calls(out, "truncate") :
         (/\ Handles(out, "speechStarted")
          /\ Frames(out, "clear") # {}
          /\ Handles(out', "audio")
          /\ out'[1].str = out[i].str)
         => /\ Frames(out', "media") = {}
            /\ ~(/\ session'.responseStartTimestamp # NoNum
                  /\ session'.lastAssistantItem = out[i].str)]_vars

\* C39: after add_to_cart, update_cart_item or remove_from_cart the cart's
\* total is the sum of its items' prices, each item's price is its unit price
\* times its quantity with a quantity of at least 1, and the total is never
\* negative; update_cart_item with a quantity of 0 or less removes the item,
\* and a request naming a cart item id the cart does not hold leaves the cart
\* unchanged.
C39_CartArithmetic ==
    [][ (Len(out') > 0 /\ out'[1].ch = "event"
           /\ out'[1].op \in {"add_to_cart", "update_cart_item", "remove_from_cart"})
        => LET k == currentSessionId
               cart == carts[k]
               after == carts'[k]
               named == out'[1].id
               held == \E i \in 1..Len(cart.items) : cart.items[i].cartItemId = named
           IN /\ after.total = reduce(after.items)
              /\ \A i \in 1..Len(after.items) :
                    /\ after.items[i].quantity >= 1
                    /\ after.items[i].price
                         = after.items[i].unitPrice * after.items[i].quantity
              /\ after.total >= 0
              /\ (out'[1].op = "update_cart_item" /\ held /\ out'[1].num <= 0)
                   => \A i \in 1..Len(after.items) : after.items[i].cartItemId # named
              /\ (out'[1].op \in {"update_cart_item", "remove_from_cart"} /\ ~held)
                   => after = cart
      ]_vars

\* the order place_order creates from the cart of session k
OrderOf(k, cart) ==
    [sessionId |-> k, items |-> cart.items, total |-> cart.total, status |-> "confirmed"]

\* place_order on a missing or empty cart: the empty-cart error is returned,
\* and neither an order is created nor a cart changed
RefusedEmpty ==
    /\ Entries(out', "return") # {}
    /\ \A i \in Entries(out', "return") : out'[i].data = EmptyCartPayload
    /\ orders' = orders
    /\ carts' = carts

\* place_order on a non-empty cart: one order for the active session with the
\* cart's items and total is created and that session's cart is removed
OrderedOnce ==
    /\ orders' = Append(orders, OrderOf(currentSessionId, carts[currentSessionId]))
    /\ carts' = [carts EXCEPT ![currentSessionId] = NoCart]

\* C40 as stated: place_order on a missing or empty cart returns an error and
\* creates no order; on a non-empty cart it creates exactly one confirmed
\* order for the active session with the cart's items and total and removes
\* that session's cart, so that a repeated place_order is refused.
C40_PlaceOrder ==
    [][(Handles(out', "functionCall") /\ out'[1].data = "place_order")
       => IF ~carts[currentSessionId].exists \/ carts[currentSessionId].items = <<>>
          THEN RefusedEmpty
          ELSE OrderedOnce]_vars

\* C40, amended: as stated when the arguments parse to an object; called on a
\* non-empty cart with arguments that parse to null, place_order fails before
\* it creates the order: the error of a failed handler is returned, no order
\* is created and the cart is kept.
C40_PlaceOrderWithArguments ==
    [][(Handles(out', "functionCall") /\ out'[1].data = "place_order")
       => IF ~carts[currentSessionId].exists \/ carts[currentSessionId].items = <<>>
          THEN RefusedEmpty
          ELSE IF out'[1].arg # "null"
          THEN OrderedOnce
          ELSE /\ \A i \in Entries(out', "return") :
                     out'[i].data = "{error:Error running function place_order}"
               /\ Entries(out', "return") # {}
               /\ orders' = orders
               /\ carts' = carts]_vars

\* a place_order has just been refused for the session whose order is the
\* last one created: the repeated place_order after a successful one
C40_Witness ==
    /\ Handles(out, "functionCall")
    /\ out[1].data = "place_order"
    /\ Len(orders) = 1
    /\ orders[1].sessionId = currentSessionId
    /\ orders[1].total = 1899
    /\ Len(orders[1].items) = 1
    /\ carts[currentSessionId] = NoCart
    /\ \E i \in Entries(out, "return") : out[i].data = EmptyCartPayload

====
